---- MODULE Spec2Model ----
(***************************************************************************)
(* Voicemail webhook service (eyepyon/vonex).                              *)
(*                                                                         *)
(* The model covers the webhook orchestrator (WebhookHandler and the three *)
(* Flask routes of src/src/app.py), the recording manager                  *)
(* (src/src/recording_manager.py), the SQLite storage layer                *)
(* (src/src/storage.py), the NCCO builder (src/src/ncco_builder.py) and    *)
(* the music generator (src/src/music_generator.py).                       *)
(*                                                                         *)
(* Specifications:                                                         *)
(*   - Spec: the webhooks handled one at a time, with the enrichment       *)
(*     threads they start;                                                 *)
(*   - ConcurrentSpec: event webhooks handled concurrently, the two        *)
(*     transactions of update_call_log_status interleaved;                 *)
(*   - BuilderSpec: the NCCO builder under every valid configuration;      *)
(*   - EventSpec: the answer webhook and the event webhook, GET and POST;  *)
(*   - StorageSpec: the methods of SQLiteStorage called directly;          *)
(*   - VoicemailSpec: process_voicemail and generate_music, one request    *)
(*     at a time; VoicemailFairSpec: the same with the call scheduled      *)
(*     until it ends;                                                      *)
(*   - LyricsSpec: _format_lyrics called on every text over a small        *)
(*     alphabet;                                                           *)
(*   - HandlerSpec: the three webhooks alone, without the enrichment       *)
(*     threads running on.                                                 *)
(*                                                                         *)
(* Python values are encoded as follows:                                   *)
(*   - a dict (webhook payload) is a function from the keys that are       *)
(*     present to their values; dict.get(k, d) is Get(dict, k, d);         *)
(*   - a datetime is represented by its isoformat() text;                  *)
(*   - None in a string-typed slot is the distinguished string None;       *)
(*   - an Optional[CallLog] is a sequence of zero or one rows;             *)
(*   - uuid.uuid4() is the next element of a stream of fresh identifiers;  *)
(*   - a transcript is the sequence of its characters, "." standing for    *)
(*     the ideographic full stop.                                          *)
(***************************************************************************)
EXTENDS Integers, Sequences, FiniteSets, TLC

\* ---------------------------------------------------------------------------
\* Bounds of the model
\* ---------------------------------------------------------------------------

\* number of uuid4() draws handed out to answer and recording webhooks
MaxUuids == 2

\* number of event webhooks the server handles concurrently
MaxRequests == 2

\* number of characters of a text handed to _format_lyrics
MaxLyricsLen == 7

\* ---------------------------------------------------------------------------
\* Python values
\* ---------------------------------------------------------------------------

None == "<None>"

\* dict.get(key, default)
Get(d, k, default) == IF k \in DOMAIN d THEN d[k] ELSE default

\* truth value of a str / Optional[str] / Optional[datetime]
Truthy(x) == x # None /\ x # ""

\* the payload field k, absent or holding one of the values of S
OptField(k, S) == {<<>>} \cup {k :> v : v \in S}

\* the n-th value returned by uuid.uuid4()
uuid4(n) == "uuid4-" \o ToString(n)

\* ---------------------------------------------------------------------------
\* Input domains
\* ---------------------------------------------------------------------------

\* call-leg and conversation identifiers assigned by the platform
CallUuids == {"u1", "c1"}

\* readings of the clock (datetime.utcnow() / datetime.now()), as isoformat text
NowValues == {"2024-01-15T10:06:00.000001"}

\* texts that datetime.fromisoformat accepts after "Z" was replaced by
\* "+00:00", with the isoformat() text of the datetime they denote
IsoTimestamps == [x \in {"2024-01-15T10:05:00Z"} |-> "2024-01-15T10:05:00+00:00"]

\* timestamp texts a payload can carry: valid, or rejected by fromisoformat
TimestampStrings == DOMAIN IsoTimestamps \cup {"not-a-date"}

\* status strings an event can carry
EventStatuses == {"ringing", "completed", "failed"}

\* query parameters of GET /webhooks/answer: none at all, or those of a call
\* whose leg uuid differs from ("u1") or equals ("c1") its conversation_uuid
AnswerParams ==
    {<<>>}
    \cup
    {[uuid |-> u, from |-> "+819011112222", to |-> "+813033334444",
      conversation_uuid |-> "c1"] : u \in CallUuids}

\* bodies of /webhooks/event: any status with a well-formed timestamp, and a
\* terminal status with a missing or malformed one
EventData ==
    {a @@ b @@ c :
        a \in OptField("uuid", CallUuids),
        b \in OptField("status", EventStatuses),
        c \in OptField("timestamp", DOMAIN IsoTimestamps) \ {<<>>}}
    \cup
    {a @@ [status |-> "completed"] @@ c :
        a \in OptField("uuid", CallUuids),
        c \in OptField("timestamp", TimestampStrings \ DOMAIN IsoTimestamps)}

\* the events into which a storage fault is injected
FaultedEventData ==
    {d \in EventData :
        /\ Get(d, "status", "") = "completed"
        /\ Get(d, "timestamp", "") \in DOMAIN IsoTimestamps}

\* bodies of POST /webhooks/recording
RecordingData ==
    {a @@ b :
        a \in OptField("conversation_uuid", {"c1"}),
        b \in {<<>>, [recording_url |-> "https://api.nexmo.com/v1/files/r",
                      recording_uuid |-> "rec-uuid",
                      start_time |-> "2024-01-15T10:05:00Z",
                      end_time |-> "2024-01-15T10:05:42Z",
                      size |-> 12345,
                      duration |-> 42]}}

\* what the body of a POST can be other than a JSON object: text that
\* json.loads rejects (an empty body included), the JSON value null, an
\* array, or a scalar ("string" stands for strings, numbers and booleans,
\* which isinstance(data, dict) tells apart from none of each other)
NonObjectJson == {"malformed", "null", "array", "string"}

\* the bodies of a POST whose objects are those of Objects
Bodies(Objects) ==
    {[json |-> "object", value |-> d] : d \in Objects}
    \cup {[json |-> k, value |-> <<>>] : k \in NonObjectJson}

\* ---------------------------------------------------------------------------
\* Configuration (src/src/config.py) and NCCO builder
\* ---------------------------------------------------------------------------

config ==
    [greeting_message |-> "greeting",
     greeting_language |-> "ja-JP",
     greeting_style |-> 0,
     max_recording_duration |-> 60,
     recording_format |-> "mp3",
     end_on_silence |-> 3,
     recording_url |-> "https://example.com/webhooks/recording"]

\* str.lower() on the recording formats of the model
Lower == [f \in {"mp3", "WAV", "flac"} |->
            IF f = "WAV" THEN "wav" ELSE f]

\* the settings an environment can hold for the fields the NCCO is built from
Configs ==
    [greeting_message : {"greeting", "hello"},
     greeting_language : {"ja-JP", "en-US"},
     greeting_style : {-1, 0, 1},
     max_recording_duration : {0, 60, 120},
     recording_format : DOMAIN Lower,
     end_on_silence : {-1, 0, 3},
     recording_url : {"https://example.com/webhooks/recording"}]

\* Config.validate, for the fields above: it raises ConfigurationError
\* unless this holds
validate(cfg) ==
    /\ ~(cfg.max_recording_duration <= 0)
    /\ ~(cfg.end_on_silence < 0)
    /\ ~(cfg.greeting_style < 0)
    /\ Lower[cfg.recording_format] \in {"mp3", "wav", "ogg"}

\* the configurations create_app can run with
ValidConfigs == {cfg \in Configs : validate(cfg)}

\* TalkAction(...).to_dict()
_build_talk_action(cfg) ==
    [action |-> "talk",
     text |-> cfg.greeting_message,
     language |-> cfg.greeting_language,
     style |-> cfg.greeting_style,
     bargeIn |-> FALSE]

\* RecordAction(...).to_dict()
_build_record_action(cfg) ==
    [action |-> "record",
     eventUrl |-> <<cfg.recording_url>>,
     endOnSilence |-> cfg.end_on_silence,
     endOnKey |-> "#",
     beepStart |-> TRUE,
     timeOut |-> cfg.max_recording_duration,
     format |-> cfg.recording_format]

\* build_voicemail_ncco appending the record action ahead of the talk action
build_voicemail_ncco_record_first(cfg, call_uuid) ==
    <<_build_record_action(cfg), _build_talk_action(cfg)>>

\* NCCOBuilder(cfg).build_voicemail_ncco(call_uuid)
build_voicemail_ncco(cfg, call_uuid) ==
    <<_build_talk_action(cfg), _build_record_action(cfg)>>

\* ---------------------------------------------------------------------------
\* State
\* ---------------------------------------------------------------------------

VARIABLES
    call_logs,        \* table call_logs: sequence of rows in rowid order
    recordings,       \* table recordings: sequence of rows in rowid order
    files,            \* audio files written under recordings_dir
    threads,          \* enrichment threads started so far, each with its
                      \* arguments and its state ("running" until it ends)
    music_generator,  \* WebhookHandler.music_generator is set (enrichment on)
    uuid_seq,         \* number of uuid4() values drawn so far
    last,             \* the webhook handled last: its payload, the clock
                      \* reading, the fault injected, the download outcome,
                      \* whether it repeats the delivery before it, and the
                      \* statuses its CallLogs had when it arrived
    effects,          \* storage / network / thread calls it made, in order
    response,         \* its outcome at the handler and at the HTTP boundary
    requests,         \* event webhooks handled concurrently by the threads
                      \* of the server: the locals of each handle_event call,
                      \* its position and the order in which it committed
    builder_config,   \* NCCOBuilder.config
    ncco_call_uuid,   \* argument of the last direct build_voicemail_ncco call
    built_ncco,       \* and the NCCO it returned (<<>> before the first call)
    request_body,     \* what the body of the last request was: "none" for a
                      \* request without body, else "object" or one of
                      \* NonObjectJson
    request_args,     \* the query parameters of the last request
    returned,         \* the last direct call of a storage method: its
                      \* name, its arguments, the rows it found, the
                      \* exception it raised, and what it returned: the
                      \* boolean (updated) or the list (value)
    voicemail,        \* the MusicGenerator.process_voicemail call: its
                      \* position, its locals, the requests it made and
                      \* how it ended
    generate,         \* the MusicGenerator.generate_music call: its loop
                      \* index, the response to each request it made and
                      \* how it ended
    lyrics_call         \* the MusicGenerator._format_lyrics call: its argument
                      \* and the text it returned

\* the NCCO builder, its last direct call and the result of the call
builder_vars == <<builder_config, ncco_call_uuid, built_ncco>>

\* the last direct call of a method
direct_vars == <<returned, voicemail, generate, lyrics_call>>

vars == <<call_logs, recordings, files, threads, music_generator, uuid_seq,
          last, effects, response, requests, builder_config, ncco_call_uuid,
          built_ncco, request_body, request_args, returned, voicemail,
          generate, lyrics_call>>

\* no _format_lyrics call was made
lyrics_idle == [called |-> FALSE, text |-> <<>>, formatted |-> <<>>]

\* no process_voicemail call has started
voicemail_idle ==
    [pc |-> "idle", text |-> <<>>, work_id |-> None, music_url |-> None,
     elapsed |-> 0, polls |-> 0, status |-> "none", seen |-> {},
     sms |-> 0, sms_sent |-> FALSE,
     failed |-> "none", raised |-> None, result |-> None]

\* no generate_music call has started
generate_idle ==
    [active |-> FALSE, caller |-> "none", lyrics |-> <<>>, max_retries |-> 0,
     attempt |-> 0, responses |-> <<>>, work_id |-> None, raised |-> None]

\* ---------------------------------------------------------------------------
\* HTTP responses (create_app)
\* ---------------------------------------------------------------------------

\* jsonify(body), 200 after the handler returned
Ok(body) == [raised |-> None, status |-> 200, body |-> body]

\* errorhandler(Exception): any exception that is neither a
\* WebhookValidationError nor a VonageAPIError is answered with 500
handle_generic_exception(exc) ==
    [raised |-> exc,
     status |-> 500,
     body |-> [error |-> "internal_error",
               message |-> "An unexpected error occurred",
               status_code |-> 500]]

\* errorhandler(WebhookValidationError): 400 with the error type, the
\* message and the status code
handle_webhook_validation_error(message) ==
    [raised |-> "WebhookValidationError",
     status |-> 400,
     body |-> [error |-> "invalid_json",
               message |-> message,
               status_code |-> 400]]

\* parse_json_body with `data = data or {}`: every body that is not an
\* object is taken for the empty object
parse_json_body_lenient(body) ==
    IF body.json = "malformed"
    THEN [error |-> "Invalid JSON: request body is malformed", data |-> <<>>]
    ELSE IF body.json # "object"
    THEN [error |-> None, data |-> <<>>]
    ELSE [error |-> None, data |-> body.value]

\* the body handling of recording_webhook and of event_webhook (POST):
\* request.get_json(force=True, silent=False) raises on text that is not
\* JSON; a None it returns (the JSON value null) is replaced by {}; then
\* validate_json_request rejects whatever is not a dict. error is the message
\* of the WebhookValidationError raised, None when data goes to the handler
parse_json_body(body) ==
    IF body.json = "malformed"
    THEN [error |-> "Invalid JSON: request body is malformed", data |-> <<>>]
    ELSE IF body.json = "null"
    THEN [error |-> None, data |-> <<>>]
    ELSE IF body.json # "object"
    THEN [error |-> "Invalid JSON: request body must be a JSON object",
          data |-> <<>>]
    ELSE [error |-> None, data |-> body.value]

\* errorhandler(405): the method of the request is not among the methods of
\* the route
handle_method_not_allowed ==
    [raised |-> "MethodNotAllowed",
     status |-> 405,
     body |-> [error |-> "method_not_allowed",
               message |-> "Method Not Allowed",
               status_code |-> 405]]

\* answer_webhook answering 200 with whatever instructions it has instead of
\* re-raising
answer_webhook_default(raised, ncco) == Ok(ncco)

\* GET /webhooks/answer: 200 with the NCCO when handle_answer returned; an
\* exception it raised (raised # None) is logged and re-raised
answer_webhook(raised, ncco) ==
    IF raised = None THEN Ok(ncco) ELSE handle_generic_exception(raised)

\* recording_webhook swallowing the exception instead of re-raising it
recording_webhook_swallow(raised) == Ok([status |-> "ok"])

\* POST /webhooks/recording: 200 {"status": "ok"} when handle_recording
\* returned; an exception it raised is logged and re-raised
recording_webhook(raised) ==
    IF raised = None THEN Ok([status |-> "ok"])
    ELSE handle_generic_exception(raised)

\* event_webhook swallowing the exception instead of re-raising it
event_webhook_swallow(raised) == Ok([status |-> "ok"])

\* /webhooks/event: 200 {"status": "ok"} when handle_event returned; an
\* exception it raised is logged and re-raised
event_webhook(raised) ==
    IF raised = None THEN Ok([status |-> "ok"])
    ELSE handle_generic_exception(raised)

\* two payloads with the same keys and values
SameDict(a, b) == DOMAIN a = DOMAIN b /\ \A k \in DOMAIN a : a[k] = b[k]

\* the platform delivers again the webhook it delivered last, both deliveries
\* being handled without a fault
Redelivery(op, data, fault) ==
    /\ last.op = op
    /\ last.fault = "none"
    /\ fault = "none"
    /\ SameDict(last.data, data)

\* one entry of effects: a call the handler made to the storage, the network
\* or the thread library, with the string it passed or got back
Call(name, value) == [call |-> name, value |-> value]

\* the names of the calls in a sequence of effects
Calls(es) == [i \in DOMAIN es |-> es[i].call]

\* ---------------------------------------------------------------------------
\* Storage (SQLiteStorage)
\* ---------------------------------------------------------------------------

\* INSERT OR REPLACE on a table whose key is call_uuid instead of id
InsertOrReplace_by_call_uuid(table, row) ==
    SelectSeq(table, LAMBDA r : r.call_uuid # row.call_uuid) \o <<row>>

\* INSERT OR REPLACE by primary key id: a row with the same id is deleted and
\* the new row is appended (it gets a new rowid)
InsertOrReplace(table, row) ==
    SelectSeq(table, LAMBDA r : r.id # row.id) \o <<row>>

\* save_call_log keyed on call_uuid: an existence check before the insert
save_call_log_by_call_uuid(table, call_log) ==
    SelectSeq(table, LAMBDA r : r.call_uuid # call_log.call_uuid)
        \o <<call_log>>

\* INSERT OR REPLACE INTO call_logs, keyed on the primary key id
save_call_log(table, call_log) == InsertOrReplace(table, call_log)

\* the SELECT of get_call_log stamping the rows it reads as recorded
get_call_log_table_stamped(table, call_uuid) ==
    [i \in DOMAIN table |->
        IF table[i].call_uuid = call_uuid
        THEN [table[i] EXCEPT !.status = "recorded"]
        ELSE table[i]]

\* the table call_logs after get_call_log ran: its statement is a SELECT,
\* which writes nothing
get_call_log_table(table, call_uuid) == table

\* SELECT ... WHERE call_uuid = ? ; fetchone()
get_call_log(table, call_uuid) ==
    LET hits == SelectSeq(table, LAMBDA r : r.call_uuid = call_uuid)
    IN  IF hits = <<>> THEN <<>> ELSE <<Head(hits)>>

\* update_call_log_status without the existence check and the WHERE clause
update_call_log_status_all(table, call_uuid, status, ended_at) ==
    [updated |-> table # <<>>,
     table |-> [i \in DOMAIN table |->
                   [table[i] EXCEPT !.status = status, !.ended_at = ended_at]]]

\* update_call_log_status refusing to reopen a call that has ended
update_call_log_status_guarded(table, call_uuid, status, ended_at) ==
    IF get_call_log(table, call_uuid) = <<>>
    THEN [updated |-> FALSE, table |-> table]
    ELSE [updated |-> TRUE,
          table |-> [i \in DOMAIN table |->
                        IF /\ table[i].call_uuid = call_uuid
                           /\ table[i].ended_at = None
                        THEN [table[i] EXCEPT !.status = status,
                                              !.ended_at = ended_at]
                        ELSE table[i]]]

\* update_call_log_status changing only the first row of the call that does
\* not carry the new values yet
update_call_log_status_first_stale(table, call_uuid, status, ended_at) ==
    LET stale == {i \in DOMAIN table :
                    /\ table[i].call_uuid = call_uuid
                    /\ <<table[i].status, table[i].ended_at>>
                            # <<status, ended_at>>}
        first == CHOOSE i \in stale : \A j \in stale : i <= j
    IN  IF get_call_log(table, call_uuid) = <<>>
        THEN [updated |-> FALSE, table |-> table]
        ELSE [updated |-> TRUE,
              table |-> IF stale = {} THEN table
                        ELSE [table EXCEPT ![first].status = status,
                                           ![first].ended_at = ended_at]]

\* the UPDATE with started_at in its SET clause as well
sql_update_call_logs_set_started_at(table, call_uuid, status, ended_at) ==
    [i \in DOMAIN table |->
        IF table[i].call_uuid = call_uuid
        THEN [table[i] EXCEPT !.status = status, !.ended_at = ended_at,
                              !.started_at = ended_at]
        ELSE table[i]]

\* the statement of update_call_log_status, one transaction:
\* UPDATE call_logs SET status = ?, ended_at = ? WHERE call_uuid = ?
sql_update_call_logs(table, call_uuid, status, ended_at) ==
    [i \in DOMAIN table |->
        IF table[i].call_uuid = call_uuid
        THEN [table[i] EXCEPT !.status = status, !.ended_at = ended_at]
        ELSE table[i]]

\* update_call_log_status: False when get_call_log finds no row of the
\* call_uuid, the UPDATE otherwise
update_call_log_status(table, call_uuid, status, ended_at) ==
    IF get_call_log(table, call_uuid) = <<>>
    THEN [updated |-> FALSE, table |-> table]
    ELSE [updated |-> TRUE,
          table |-> sql_update_call_logs(table, call_uuid, status, ended_at)]

\* the fields of the dataclass Recording, none of which has a default
RecordingFields ==
    {"id", "call_uuid", "conversation_uuid", "caller_number", "called_number",
     "recording_url", "recording_uuid", "duration", "file_size", "format",
     "status", "local_file_path", "created_at", "updated_at"}

\* Recording(**kwargs): TypeError when a required field is not passed
Recording(kwargs) ==
    IF RecordingFields \subseteq DOMAIN kwargs
    THEN [raised |-> None, value |-> <<kwargs>>]
    ELSE [raised |-> "TypeError", value |-> <<>>]

\* _row_to_recording: Recording(...) from the thirteen columns of the row
_row_to_recording(row) ==
    Recording([k \in {"id", "call_uuid", "conversation_uuid",
                      "caller_number", "called_number", "recording_url",
                      "recording_uuid", "duration", "file_size", "format",
                      "status", "created_at", "updated_at"} |-> row[k]])

\* SELECT ... FROM recordings WHERE call_uuid = ? ; fetchone(): None without
\* a row, _row_to_recording(row) otherwise (a TypeError is not caught)
get_recording(table, call_uuid) ==
    LET hits == SelectSeq(table, LAMBDA r : r.call_uuid = call_uuid)
    IN  IF hits = <<>> THEN [raised |-> None, value |-> <<>>]
        ELSE _row_to_recording(Head(hits))

\* the columns of table recordings: the INSERT of SQLiteStorage.save_recording
\* binds every field of the Recording except local_file_path
recording_row(recording) ==
    [k \in DOMAIN recording \ {"local_file_path"} |-> recording[k]]

\* save_recording as a plain INSERT that keeps the rows it finds
SQLiteStorage_save_recording_append(table, recording) ==
    table \o <<recording_row(recording)>>

\* SQLiteStorage.save_recording: INSERT OR REPLACE INTO recordings of the
\* thirteen columns, keyed on the primary key id
SQLiteStorage_save_recording(table, recording) ==
    InsertOrReplace(table, recording_row(recording))

\* isoformat() texts of the datetimes the direct calls use, one format
\* throughout, with their place in the text order SQLite compares them by
CreatedAtRank ==
    [t \in {"2024-01-15T10:00:00", "2024-01-15T11:00:00"} |->
        IF t = "2024-01-15T10:00:00" THEN 1 ELSE 2]

\* the WHERE clause of list_recordings: created_at >= ? for a start_date,
\* created_at <= ? for an end_date, each only when the argument is given
list_recordings_where(row, start_date, end_date) ==
    /\ start_date # None
        => CreatedAtRank[row.created_at] >= CreatedAtRank[start_date]
    /\ end_date # None
        => CreatedAtRank[row.created_at] <= CreatedAtRank[end_date]

\* ORDER BY created_at DESC: a permutation of the rows with created_at never
\* increasing (the order of rows with equal created_at is not specified)
order_by_created_at_desc(rows) ==
    LET n == Len(rows)
        perms == {f \in [1..n -> 1..n] : \A i, j \in 1..n : i # j => f[i] # f[j]}
        p == CHOOSE f \in perms :
                \A i, j \in 1..n :
                    i < j => CreatedAtRank[rows[f[i]].created_at]
                                >= CreatedAtRank[rows[f[j]].created_at]
    IN  [i \in 1..n |-> rows[p[i]]]

\* list_recordings: the rows selected and ordered, each through
\* _row_to_recording; the TypeError of the first row is not caught by the
\* `except sqlite3.Error`
list_recordings(table, start_date, end_date) ==
    LET rows == order_by_created_at_desc(
                    SelectSeq(table,
                        LAMBDA r : list_recordings_where(r, start_date,
                                                         end_date)))
    IN  IF rows = <<>> THEN [raised |-> None, value |-> <<>>]
        ELSE IF _row_to_recording(rows[1]).raised # None
        THEN [raised |-> _row_to_recording(rows[1]).raised, value |-> <<>>]
        ELSE [raised |-> None,
              value |-> [i \in DOMAIN rows |->
                            _row_to_recording(rows[i]).value[1]]]

\* ---------------------------------------------------------------------------
\* Initial state: create_app() on an empty database
\* ---------------------------------------------------------------------------

\* music_generator is the constructor argument of WebhookHandler: enrichment
\* is on for the whole run or off for the whole run.
Init ==
    /\ call_logs = <<>>
    /\ recordings = <<>>
    /\ files = {}
    /\ threads = <<>>
    /\ music_generator \in BOOLEAN
    /\ uuid_seq = 0
    /\ last = [op |-> "init", data |-> <<>>, now |-> None, fault |-> "none",
               dl |-> "none", repeat |-> FALSE, prior |-> {}]
    /\ effects = <<>>
    /\ response = Ok([status |-> "healthy"])
    /\ requests = <<>>
    /\ builder_config = config
    /\ ncco_call_uuid = None
    /\ built_ncco = <<>>
    /\ request_body = "none"
    /\ request_args = <<>>
    /\ returned = [op |-> "none", args |-> <<>>, found |-> <<>>,
                 raised |-> None, updated |-> FALSE, value |-> <<>>]
    /\ voicemail = voicemail_idle
    /\ generate = generate_idle
    /\ lyrics_call = lyrics_idle

\* ---------------------------------------------------------------------------
\* GET /webhooks/answer -> WebhookHandler.handle_answer
\* ---------------------------------------------------------------------------

\* fault = "save_call_log": storage.save_call_log raises StorageError
handle_answer(params, now, fault) ==
    LET call_uuid == Get(params, "uuid", "")
        caller_number == Get(params, "from", "")
        called_number == Get(params, "to", "")
        call_log == [id |-> uuid4(uuid_seq + 1),
                     call_uuid |-> call_uuid,
                     caller_number |-> caller_number,
                     called_number |-> called_number,
                     status |-> "answered",
                     direction |-> "inbound",
                     started_at |-> now,
                     ended_at |-> None,
                     created_at |-> now]
    IN  /\ uuid_seq < MaxUuids
        /\ uuid_seq' = uuid_seq + 1
        /\ last' = [op |-> "answer", data |-> params, now |-> now,
                    fault |-> fault, dl |-> "none",
                    repeat |-> Redelivery("answer", params, fault),
                    prior |-> {}]
        /\ IF fault = "save_call_log"
           THEN /\ call_logs' = call_logs
                /\ effects' = <<Call("save_call_log", call_log.id)>>
                /\ response' = answer_webhook("StorageError", <<>>)
           ELSE /\ call_logs' = save_call_log(call_logs, call_log)
                /\ effects' = <<Call("save_call_log", call_log.id),
                                Call("build_voicemail_ncco", call_uuid)>>
                /\ response' =
                        answer_webhook(None,
                            build_voicemail_ncco(builder_config, call_uuid))
        /\ UNCHANGED <<recordings, files, threads, music_generator, requests>>
        /\ UNCHANGED <<builder_vars, direct_vars>>

\* a POST whose body is rejected: the handler is not called, the
\* WebhookValidationError is answered with 400
RejectWebhook(route, body) ==
    /\ parse_json_body(body).error # None
    /\ last' = [op |-> route \o "_rejected", data |-> <<>>, now |-> None,
                fault |-> "none", dl |-> "none", repeat |-> FALSE,
                prior |-> {}]
    /\ effects' = <<>>
    /\ response' = handle_webhook_validation_error(parse_json_body(body).error)
    /\ request_body' = body.json
    /\ request_args' = <<>>
    /\ UNCHANGED <<call_logs, recordings, files, threads, music_generator,
                   uuid_seq, requests>>
    /\ UNCHANGED <<builder_vars, direct_vars>>

AnswerWebhook ==
    \E params \in AnswerParams, now \in NowValues,
       fault \in {"none", "save_call_log"} :
        /\ handle_answer(params, now, fault)
        /\ request_body' = "none"
        /\ request_args' = params

\* ---------------------------------------------------------------------------
\* /webhooks/event -> WebhookHandler.handle_event
\* ---------------------------------------------------------------------------

terminal_statuses ==
    {"completed", "failed", "rejected", "busy", "cancelled", "timeout",
     "unanswered"}

\* parse_timestamp with the parse dropped: the clock reading in every case
parse_timestamp_now(text, now) == now

\* the lenient timestamp parse of handle_event and handle_recording:
\* fromisoformat(text.replace("Z", "+00:00")) when the text is non-empty and
\* well formed, the clock reading otherwise
parse_timestamp(text, now) ==
    IF text # "" /\ text \in DOMAIN IsoTimestamps
    THEN IsoTimestamps[text]
    ELSE now

\* event_ended_at without the terminal-status test
event_ended_at_always(status, event_timestamp) == event_timestamp

\* the ended_at that handle_event hands to the storage update
event_ended_at(status, event_timestamp) ==
    IF status \in terminal_statuses THEN event_timestamp ELSE None

\* the test of handle_event dropped: the storage is updated for any uuid
event_has_uuid_always(call_uuid) == TRUE

\* `if call_uuid:` of handle_event: the storage is updated only for an event
\* that carries a non-empty uuid
event_has_uuid(call_uuid) == call_uuid # ""

\* fault = "update_call_log_status": the storage call raises StorageError.
\* (For status "failed" the handler also logs recording_failed with the reason;
\* logging changes no state.)
handle_event(data, now, fault) ==
    LET call_uuid == Get(data, "uuid", "")
        status == Get(data, "status", "")
        timestamp_str == Get(data, "timestamp", "")
        event_timestamp == parse_timestamp(timestamp_str, now)
        ended_at == event_ended_at(status, event_timestamp)
        result == update_call_log_status(call_logs, call_uuid, status, ended_at)
        prior == {call_logs[i].status :
                    i \in {j \in DOMAIN call_logs :
                              call_logs[j].call_uuid = call_uuid}}
    IN  /\ fault # "none" => call_uuid # ""
        /\ last' = [op |-> "event", data |-> data, now |-> now,
                    fault |-> fault, dl |-> "none",
                    repeat |-> Redelivery("event", data, fault),
                    prior |-> prior]
        /\ IF ~event_has_uuid(call_uuid)
           THEN /\ call_logs' = call_logs
                /\ effects' = <<>>
                /\ response' = event_webhook(None)
           ELSE IF fault = "update_call_log_status"
           THEN /\ call_logs' = call_logs
                /\ effects' = <<Call("update_call_log_status", call_uuid)>>
                /\ response' = event_webhook("StorageError")
           ELSE /\ call_logs' = result.table
                /\ effects' = <<Call("update_call_log_status", call_uuid)>>
                /\ response' = event_webhook(None)
        /\ UNCHANGED <<recordings, files, threads, music_generator, uuid_seq,
                       requests>>
        /\ UNCHANGED <<builder_vars, direct_vars>>

\* query strings of GET /webhooks/event: those of a terminal event of the
\* call "u1", with a well-formed, a malformed or no timestamp
EventArgs ==
    {d \in EventData :
        Get(d, "uuid", "") = "u1" /\ Get(d, "status", "") = "completed"}

\* the event route registered for POST alone
event_webhook_methods_post_only == {"POST"}

\* @app.route("/webhooks/event", methods=["GET", "POST"])
event_webhook_methods == {"GET", "POST"}

\* the event route reading the JSON body of a GET request, which has none
event_get_data_from_body(args) == <<>>

\* data = dict(request.args): each query parameter with its first value
event_get_data(args) == args

\* GET /webhooks/event?uuid=..&status=..&timestamp=..: the fields are taken
\* from the query string and nothing is validated; a method the route is not
\* registered for is answered 405 before the view function runs
EventWebhookGet ==
    \E args \in EventArgs, now \in NowValues :
        /\ request_body' = "none"
        /\ request_args' = args
        /\ IF "GET" \in event_webhook_methods
           THEN handle_event(event_get_data(args), now, "none")
           ELSE /\ last' = [op |-> "event_rejected", data |-> <<>>,
                            now |-> None, fault |-> "none", dl |-> "none",
                            repeat |-> FALSE, prior |-> {}]
                /\ effects' = <<>>
                /\ response' = handle_method_not_allowed
                /\ UNCHANGED <<call_logs, recordings, files, threads,
                               music_generator, uuid_seq, requests>>
                /\ UNCHANGED <<builder_vars, direct_vars>>

EventWebhook ==
    \/ \E body \in Bodies(EventData), now \in NowValues :
            /\ parse_json_body(body).error = None
            /\ handle_event(parse_json_body(body).data, now, "none")
            /\ request_body' = body.json
            /\ request_args' = <<>>
    \/ \E data \in FaultedEventData, now \in NowValues :
            /\ handle_event(data, now, "update_call_log_status")
            /\ request_body' = "object"
            /\ request_args' = <<>>
    \/ \E body \in Bodies(EventData) : RejectWebhook("event", body)

\* ---------------------------------------------------------------------------
\* RecordingManager
\* ---------------------------------------------------------------------------

recordings_dir == "recordings"

\* download_recording returning the file path although the download failed
download_recording_always_path(recording_url, recording_id, format, dl) ==
    IF recording_url = "" THEN None
    ELSE recordings_dir \o "/" \o recording_id \o "." \o format

\* download_recording: None for an empty URL, None when the request or the
\* file write fails (dl = "failed"), the path of the written file otherwise
download_recording(recording_url, recording_id, format, dl) ==
    IF recording_url = "" THEN None
    ELSE IF dl = "ok" THEN recordings_dir \o "/" \o recording_id \o "." \o format
    ELSE None

\* save_recording_calls with the storage write ahead of the download
save_recording_calls_persist_first(attempt, local_file_path) ==
    <<Call("storage.save_recording", local_file_path)>>
    \o (IF attempt THEN <<Call("download_recording", local_file_path)>>
        ELSE <<>>)

\* the order of the calls of RecordingManager.save_recording: the download,
\* when one is attempted, then storage.save_recording with the Recording
\* whose local_file_path is the result of the download
save_recording_calls(attempt, local_file_path) ==
    (IF attempt THEN <<Call("download_recording", local_file_path)>>
     ELSE <<>>)
    \o <<Call("storage.save_recording", local_file_path)>>

\* RecordingManager.save_recording up to its call of storage.save_recording:
\* the download attempt, the Recording it builds, the calls it makes in order
\* and the number of uuid4() values it draws
save_recording(metadata, conversation_uuid, recording_uuid, file_size, now, seq, dl) ==
    LET format == "mp3"
        attempt == Truthy(metadata.recording_url)
        local_file_path ==
            IF attempt
            THEN download_recording(metadata.recording_url, metadata.id,
                                    format, dl)
            ELSE None
        draw1 == IF Truthy(conversation_uuid) THEN 0 ELSE 1
        draw2 == IF Truthy(recording_uuid) THEN 0 ELSE 1
        recording ==
            [id |-> metadata.id,
             call_uuid |-> metadata.call_uuid,
             conversation_uuid |->
                IF Truthy(conversation_uuid) THEN conversation_uuid
                ELSE uuid4(seq + 1),
             caller_number |-> metadata.caller_number,
             called_number |-> "",
             recording_url |-> metadata.recording_url,
             recording_uuid |->
                IF Truthy(recording_uuid) THEN recording_uuid
                ELSE uuid4(seq + draw1 + 1),
             duration |-> metadata.duration,
             file_size |-> file_size,
             format |-> format,
             status |-> metadata.status,
             local_file_path |-> local_file_path,
             created_at |-> metadata.timestamp,
             updated_at |-> now]
    IN  [recording |-> recording,
         local_file_path |-> local_file_path,
         draws |-> draw1 + draw2,
         effects |-> save_recording_calls(attempt, recording.local_file_path)]

\* ---------------------------------------------------------------------------
\* POST /webhooks/recording -> WebhookHandler.handle_recording
\* ---------------------------------------------------------------------------

\* music_generation starting the thread without a caller number
music_generation_any_caller(table, call_uuid, recording_id) ==
    LET call_log == get_call_log(table, call_uuid)
        caller_number ==
            IF call_log # <<>> THEN call_log[1].caller_number ELSE ""
        local_file_path == recordings_dir \o "/" \o recording_id \o ".mp3"
    IN  [caller_number |-> caller_number,
         local_file_path |-> local_file_path,
         start |-> Truthy(local_file_path),
         thread |-> [audio_file_path |-> local_file_path,
                     caller_number |-> caller_number,
                     recording_id |-> recording_id,
                     state |-> "running"]]

\* music_generation taking the caller number from the CallLog stored last,
\* whatever its call_uuid
music_generation_latest_call(table, call_uuid, recording_id) ==
    LET caller_number ==
            IF table # <<>> THEN table[Len(table)].caller_number ELSE ""
        local_file_path == recordings_dir \o "/" \o recording_id \o ".mp3"
    IN  [caller_number |-> caller_number,
         local_file_path |-> local_file_path,
         start |-> Truthy(caller_number) /\ Truthy(local_file_path),
         thread |-> [audio_file_path |-> local_file_path,
                     caller_number |-> caller_number,
                     recording_id |-> recording_id,
                     state |-> "running"]]

\* the enrichment branch of handle_recording, entered when music_generator is
\* set: the caller number looked up for call_uuid, the path it builds for the
\* audio file, and whether it starts a thread
music_generation(table, call_uuid, recording_id) ==
    LET call_log == get_call_log(table, call_uuid)
        caller_number ==
            IF call_log # <<>> THEN call_log[1].caller_number ELSE ""
        local_file_path == recordings_dir \o "/" \o recording_id \o ".mp3"
    IN  [caller_number |-> caller_number,
         local_file_path |-> local_file_path,
         start |-> Truthy(caller_number) /\ Truthy(local_file_path),
         thread |-> [audio_file_path |-> local_file_path,
                     caller_number |-> caller_number,
                     recording_id |-> recording_id,
                     state |-> "running"]]

\* dl: outcome of the audio download ("none" when no download is attempted)
\* fault = "save_recording": storage.save_recording raises StorageError
\* fault = "get_call_log":   storage.get_call_log raises StorageError
\* fault = "thread_start":   Thread.start raises RuntimeError
handle_recording(data, now, dl, fault) ==
    LET recording_url == Get(data, "recording_url", "")
        recording_uuid_value == Get(data, "recording_uuid", "")
        conversation_uuid == Get(data, "conversation_uuid", "")
        start_time == Get(data, "start_time", "")
        file_size == Get(data, "size", 0)
        duration == Get(data, "duration", 0)
        call_uuid == conversation_uuid
        timestamp == parse_timestamp(start_time, now)
        metadata == [id |-> uuid4(uuid_seq + 1),
                     call_uuid |-> call_uuid,
                     caller_number |-> "",
                     recording_url |-> recording_url,
                     duration |-> duration,
                     timestamp |-> timestamp,
                     status |-> "completed"]
        saved == save_recording(metadata, conversation_uuid,
                                recording_uuid_value, file_size, now,
                                uuid_seq + 1, dl)
        music == music_generation(call_logs, call_uuid, metadata.id)
        lookup == <<Call("get_call_log", call_uuid)>>
        start == <<Call("thread_start", music.local_file_path)>>
    IN  /\ uuid_seq < MaxUuids
        /\ (dl = "none") <=> (recording_url = "")
        /\ fault = "get_call_log" => music_generator
        /\ fault = "thread_start" => music_generator /\ music.start
        /\ uuid_seq' = uuid_seq + 1 + saved.draws
        /\ last' = [op |-> "recording", data |-> data, now |-> now,
                    fault |-> fault, dl |-> dl,
                    repeat |-> Redelivery("recording", data, fault),
                    prior |-> {}]
        /\ files' = IF saved.local_file_path # None
                    THEN files \cup {saved.local_file_path}
                    ELSE files
        /\ IF fault = "save_recording"
           THEN /\ recordings' = recordings
                /\ threads' = threads
                /\ effects' = saved.effects
                /\ response' = recording_webhook("StorageError")
           ELSE /\ recordings' = InsertOrReplace(recordings,
                                                 recording_row(saved.recording))
                /\ IF ~music_generator
                   THEN /\ threads' = threads
                        /\ effects' = saved.effects
                        /\ response' = recording_webhook(None)
                   ELSE IF fault = "get_call_log"
                   THEN /\ threads' = threads
                        /\ effects' = saved.effects \o lookup
                        /\ response' = recording_webhook("StorageError")
                   ELSE IF ~music.start
                   THEN /\ threads' = threads
                        /\ effects' = saved.effects \o lookup
                        /\ response' = recording_webhook(None)
                   ELSE IF fault = "thread_start"
                   THEN /\ threads' = threads
                        /\ effects' = saved.effects \o lookup \o start
                        /\ response' = recording_webhook("RuntimeError")
                   ELSE /\ threads' = Append(threads, music.thread)
                        /\ effects' = saved.effects \o lookup \o start
                        /\ response' = recording_webhook(None)
        /\ call_logs' =
                IF music_generator
                        /\ fault \notin {"save_recording", "get_call_log"}
                THEN get_call_log_table(call_logs, call_uuid)
                ELSE call_logs
        /\ UNCHANGED <<music_generator, requests>>
        /\ UNCHANGED <<builder_vars, direct_vars>>

RecordingWebhook ==
    \/ \E body \in Bodies(RecordingData), now \in NowValues,
          dl \in {"none", "ok", "failed"},
          fault \in {"none", "save_recording", "get_call_log",
                     "thread_start"} :
            /\ parse_json_body(body).error = None
            /\ handle_recording(parse_json_body(body).data, now, dl, fault)
            /\ request_body' = body.json
            /\ request_args' = <<>>
    \/ \E body \in Bodies(RecordingData) : RejectWebhook("recording", body)

\* ---------------------------------------------------------------------------
\* The enrichment thread: WebhookHandler._process_music_generation
\* ---------------------------------------------------------------------------

\* what process_voicemail does: it returns the URL of the music, it returns
\* None (a stage of the pipeline failed), or it raises
ProcessVoicemailOutcomes == {"music_url", "none", "exception"}

\* _process_music_generation letting the exception of the task reach the
\* response of the webhook that started it
_process_music_generation_raise(outcome, resp) ==
    [state |-> IF outcome = "music_url" THEN "completed"
               ELSE IF outcome = "none" THEN "failed"
               ELSE "error",
     response |-> IF outcome = "exception"
                  THEN handle_generic_exception("MusicGeneratorError")
                  ELSE resp]

\* the body of the thread: music_generation_completed or
\* music_generation_failed is logged, an exception is caught and logged; the
\* response of the webhook (resp) is out of its reach
_process_music_generation(outcome, resp) ==
    [state |-> IF outcome = "music_url" THEN "completed"
               ELSE IF outcome = "none" THEN "failed"
               ELSE "error",
     response |-> resp]

\* a running thread ends; a thread that never ends stays "running"
ProcessMusicGeneration ==
    \E i \in DOMAIN threads, outcome \in ProcessVoicemailOutcomes :
        LET ended == _process_music_generation(outcome, response)
        IN  /\ threads[i].state = "running"
            /\ threads' = [threads EXCEPT ![i].state = ended.state]
            /\ response' = ended.response
            /\ last' = [op |-> "thread", data |-> <<>>, now |-> None,
                        fault |-> "none", dl |-> "none", repeat |-> FALSE,
                        prior |-> {}]
            /\ effects' = <<Call("process_voicemail",
                                 threads[i].audio_file_path)>>
            /\ request_body' = "none"
            /\ request_args' = <<>>
            /\ UNCHANGED <<call_logs, recordings, files, music_generator,
                           uuid_seq, requests>>
            /\ UNCHANGED <<builder_vars, direct_vars>>

\* ---------------------------------------------------------------------------
\* Event webhooks handled concurrently
\*
\* Each request runs handle_event on its own thread with its own locals; the
\* storage opens one connection per call, so the SELECT of get_call_log and
\* the UPDATE are two transactions that other requests can interleave with.
\* ---------------------------------------------------------------------------

\* events of the concurrent deliveries: a uuid, a non-terminal or a terminal
\* status, a parsable timestamp
ConcurrentEventData ==
    {d \in EventData :
        /\ "uuid" \in DOMAIN d
        /\ Get(d, "status", "") \in {"ringing", "completed"}
        /\ Get(d, "timestamp", "") \in DOMAIN IsoTimestamps}

\* the number of UPDATEs committed so far
Commits == Cardinality({i \in DOMAIN requests : requests[i].wrote > 0})

\* a request arrives: handle_event reads the payload and computes the status
\* and the ended_at it is going to write (the uuid of these events is not
\* empty, so each of them goes on to update_call_log_status)
EventReceive ==
    \E data \in ConcurrentEventData, now \in NowValues :
        LET call_uuid == Get(data, "uuid", "")
            status == Get(data, "status", "")
            event_timestamp ==
                parse_timestamp(Get(data, "timestamp", ""), now)
        IN  /\ Len(requests) < MaxRequests
            /\ requests' = Append(requests,
                    [call_uuid |-> call_uuid,
                     status |-> status,
                     ended_at |-> event_ended_at(status, event_timestamp),
                     pc |-> "select",
                     wrote |-> 0,
                     raised |-> None])
            /\ UNCHANGED <<call_logs, recordings, files, threads,
                           music_generator, uuid_seq, last, effects, response,
                           request_body, request_args>>
            /\ UNCHANGED <<builder_vars, direct_vars>>

\* update_call_log_status, first transaction: existing_log = get_call_log();
\* without a row it returns False and the route answers 200
EventSelect(i) ==
    /\ requests[i].pc = "select"
    /\ IF get_call_log(call_logs, requests[i].call_uuid) = <<>>
       THEN /\ requests' = [requests EXCEPT ![i].pc = "done"]
            /\ response' = event_webhook(None)
       ELSE /\ requests' = [requests EXCEPT ![i].pc = "update"]
            /\ response' = response
    /\ UNCHANGED <<call_logs, recordings, files, threads, music_generator,
                   uuid_seq, last, effects, request_body, request_args>>
    /\ UNCHANGED <<builder_vars, direct_vars>>

\* the UPDATE issued as two statements, status first and ended_at second
EventUpdate_two_statements(i) ==
    \/ /\ requests[i].pc = "update"
       /\ call_logs' = [j \in DOMAIN call_logs |->
                IF call_logs[j].call_uuid = requests[i].call_uuid
                THEN [call_logs[j] EXCEPT !.status = requests[i].status]
                ELSE call_logs[j]]
       /\ requests' = [requests EXCEPT ![i].pc = "update2"]
       /\ UNCHANGED <<recordings, files, threads, music_generator, uuid_seq,
                      last, effects, response, request_body, request_args>>
       /\ UNCHANGED <<builder_vars, direct_vars>>
    \/ /\ requests[i].pc = "update2"
       /\ call_logs' = [j \in DOMAIN call_logs |->
                IF call_logs[j].call_uuid = requests[i].call_uuid
                THEN [call_logs[j] EXCEPT !.ended_at = requests[i].ended_at]
                ELSE call_logs[j]]
       /\ requests' = [requests EXCEPT ![i].pc = "done",
                                       ![i].wrote = Commits + 1]
       /\ response' = event_webhook(None)
       /\ UNCHANGED <<recordings, files, threads, music_generator, uuid_seq,
                      last, effects, request_body, request_args>>
       /\ UNCHANGED <<builder_vars, direct_vars>>

\* update_call_log_status, second transaction: the UPDATE commits and the
\* route answers 200; or, while another request is writing, SQLite gives up
\* on the lock ("database is locked"), the StorageError is raised and the
\* route answers 500
EventUpdate(i) ==
    \/ /\ requests[i].pc = "update"
       /\ call_logs' = sql_update_call_logs(call_logs, requests[i].call_uuid,
                            requests[i].status, requests[i].ended_at)
       /\ requests' = [requests EXCEPT ![i].pc = "done",
                                       ![i].wrote = Commits + 1]
       /\ response' = event_webhook(None)
       /\ UNCHANGED <<recordings, files, threads, music_generator, uuid_seq,
                      last, effects, request_body, request_args>>
       /\ UNCHANGED <<builder_vars, direct_vars>>
    \/ /\ requests[i].pc = "update"
       /\ \E j \in DOMAIN requests : j # i /\ requests[j].pc = "update"
       /\ requests' = [requests EXCEPT ![i].pc = "done",
                                       ![i].raised = "StorageError"]
       /\ response' = event_webhook("StorageError")
       /\ UNCHANGED <<call_logs, recordings, files, threads, music_generator,
                      uuid_seq, last, effects, request_body, request_args>>
       /\ UNCHANGED <<builder_vars, direct_vars>>

\* ---------------------------------------------------------------------------
\* The NCCO builder under every valid configuration
\* ---------------------------------------------------------------------------

\* create_app() with any configuration that passes Config.validate
BuilderInit ==
    /\ call_logs = <<>>
    /\ recordings = <<>>
    /\ files = {}
    /\ threads = <<>>
    /\ music_generator = FALSE
    /\ uuid_seq = 0
    /\ last = [op |-> "init", data |-> <<>>, now |-> None, fault |-> "none",
               dl |-> "none", repeat |-> FALSE, prior |-> {}]
    /\ effects = <<>>
    /\ response = Ok([status |-> "healthy"])
    /\ requests = <<>>
    /\ builder_config \in ValidConfigs
    /\ ncco_call_uuid = None
    /\ built_ncco = <<>>
    /\ request_body = "none"
    /\ request_args = <<>>
    /\ returned = [op |-> "none", args |-> <<>>, found |-> <<>>,
                 raised |-> None, updated |-> FALSE, value |-> <<>>]
    /\ voicemail = voicemail_idle
    /\ generate = generate_idle
    /\ lyrics_call = lyrics_idle

\* a direct call of NCCOBuilder.build_voicemail_ncco
BuildVoicemailNcco ==
    \E call_uuid \in CallUuids \cup {""} :
        /\ ncco_call_uuid' = call_uuid
        /\ built_ncco' = build_voicemail_ncco(builder_config, call_uuid)
        /\ UNCHANGED <<call_logs, recordings, files, threads, music_generator,
                       uuid_seq, last, effects, response, requests,
                       builder_config, request_body, request_args, direct_vars>>

BuilderNext ==
    \/ BuildVoicemailNcco
    \/ AnswerWebhook

BuilderSpec == BuilderInit /\ [][BuilderNext]_vars

\* ---------------------------------------------------------------------------
\* SQLiteStorage called directly
\* ---------------------------------------------------------------------------

\* CallLogs handed to save_call_log: a call that was answered
StorageCallLogs ==
    {[id |-> id, call_uuid |-> call_uuid, caller_number |-> "",
      called_number |-> "", status |-> "answered", direction |-> "inbound",
      started_at |-> "2024-01-15T10:00:00", ended_at |-> None,
      created_at |-> "2024-01-15T10:00:00"] :
        id \in {"id1", "id2"}, call_uuid \in CallUuids}

\* Recordings handed to save_recording
StorageRecordings ==
    {[id |-> id, call_uuid |-> "u1", conversation_uuid |-> "c1",
      caller_number |-> "", called_number |-> "", recording_url |-> "",
      recording_uuid |-> "", duration |-> duration, file_size |-> 0,
      format |-> "mp3", status |-> "completed", local_file_path |-> None,
      created_at |-> created_at, updated_at |-> created_at] :
        id \in {"rec1", "rec2"}, duration \in {5, 9},
        created_at \in DOMAIN CreatedAtRank}

\* an empty database, no webhook handled
StorageInit ==
    /\ Init
    /\ music_generator = FALSE

\* what a direct call leaves alone
StorageUnchanged ==
    UNCHANGED <<files, threads, music_generator, uuid_seq, last, effects,
                response, requests, builder_vars, request_body, request_args,
                voicemail, generate, lyrics_call>>

\* storage.save_call_log(call_log)
StorageSaveCallLog ==
    \E call_log \in StorageCallLogs :
        /\ call_logs' = save_call_log(call_logs, call_log)
        /\ returned' = [op |-> "save_call_log", args |-> <<call_log>>,
                        found |-> SelectSeq(call_logs,
                                    LAMBDA r : r.id = call_log.id),
                        raised |-> None, updated |-> FALSE, value |-> <<>>]
        /\ UNCHANGED recordings
        /\ StorageUnchanged

\* storage.update_call_log_status(call_uuid, "completed", ended_at)
StorageUpdateCallLogStatus ==
    \E call_uuid \in CallUuids, ended_at \in DOMAIN CreatedAtRank :
        LET result == update_call_log_status(call_logs, call_uuid,
                                             "completed", ended_at)
        IN  /\ call_logs' = result.table
            /\ returned' = [op |-> "update_call_log_status",
                            args |-> <<call_uuid, "completed", ended_at>>,
                            found |-> SelectSeq(call_logs,
                                        LAMBDA r : r.call_uuid = call_uuid),
                            raised |-> None, updated |-> result.updated,
                            value |-> <<>>]
            /\ UNCHANGED recordings
            /\ StorageUnchanged

\* storage.save_recording(recording)
StorageSaveRecording ==
    \E recording \in StorageRecordings :
        /\ recordings' = SQLiteStorage_save_recording(recordings, recording)
        /\ returned' = [op |-> "save_recording", args |-> <<recording>>,
                        found |-> SelectSeq(recordings,
                                    LAMBDA r : r.id = recording.id),
                        raised |-> None, updated |-> FALSE, value |-> <<>>]
        /\ UNCHANGED call_logs
        /\ StorageUnchanged

\* storage.list_recordings(start_date, end_date)
StorageListRecordings ==
    \E start_date \in DOMAIN CreatedAtRank \cup {None},
       end_date \in DOMAIN CreatedAtRank \cup {None} :
        LET result == list_recordings(recordings, start_date, end_date)
        IN  /\ returned' = [op |-> "list_recordings",
                            args |-> <<start_date, end_date>>,
                            found |-> SelectSeq(recordings,
                                LAMBDA r : list_recordings_where(r,
                                                start_date, end_date)),
                            raised |-> result.raised, updated |-> FALSE,
                            value |-> result.value]
            /\ UNCHANGED <<call_logs, recordings>>
            /\ StorageUnchanged

StorageNext ==
    \/ StorageSaveCallLog
    \/ StorageUpdateCallLogStatus
    \/ StorageSaveRecording
    \/ StorageListRecordings

StorageSpec == StorageInit /\ [][StorageNext]_vars

\* ---------------------------------------------------------------------------
\* MusicGenerator: process_voicemail and generate_music, request by request
\* ---------------------------------------------------------------------------

\* generate_music(max_retries=3)
default_max_retries == 3

\* wait_for_music(timeout=300, poll_interval=10), in seconds
wait_timeout == 300
poll_interval == 10

\* str.strip(): the text without its leading and trailing whitespace; a text
\* is the sequence of its characters
RECURSIVE lstrip(_)
lstrip(text) ==
    IF text # <<>> /\ Head(text) = " " THEN lstrip(Tail(text)) ELSE text

RECURSIVE rstrip(_)
rstrip(text) ==
    IF text # <<>> /\ text[Len(text)] = " "
    THEN rstrip(SubSeq(text, 1, Len(text) - 1))
    ELSE text

strip(text) == rstrip(lstrip(text))

\* what transcribe_audio can return: nothing, blanks only, four letters
\* between blanks, four letters, five letters, five letters between blanks
Transcripts ==
    {<<>>,
     <<" ", " ", " ", " ", " ">>,
     <<" ", "a", "b", "c", "d", " ">>,
     <<"a", "b", "c", "d">>,
     <<"a", "b", "c", "d", "e">>,
     <<" ", "a", "b", "c", "d", "e", " ">>}

\* the length test of process_voicemail on the text as it came
text_too_short_unstripped(text) == text = <<>> \/ Len(text) < 5

\* process_voicemail: `if not text or len(text.strip()) < 5`
text_too_short(text) == text = <<>> \/ Len(strip(text)) < 5

\* generate_music: `if not lyrics or not lyrics.strip()`
empty_lyrics(lyrics) == lyrics = <<>> \/ strip(lyrics) = <<>>

\* what POST /v2/generate can come to: requests.post raises
\* (transport_error), the status is 429, the status is another one >= 400,
\* the body has a code other than 200, it has neither workId nor
\* data.task_id, its data is null and it has no workId, or it has a workId
GenerateResponses ==
    {"transport_error", "http_429", "http_error", "code_error", "no_work_id",
     "data_null", "ok"}

\* the loop indices of generate_music with one more than range(max_retries)
generate_music_attempts_inclusive(max_retries) == 0..max_retries

\* for attempt in range(max_retries)
generate_music_attempts(max_retries) == 0..(max_retries - 1)

\* one pass of the loop with the retry kept for status 429 only
generate_music_attempt_retry_429_only(resp, attempt, max_retries) ==
    IF resp = "ok"
    THEN [next |-> "return", work_id |-> "w1", raised |-> None]
    ELSE IF resp = "data_null"
    THEN [next |-> "raise", work_id |-> None, raised |-> "AttributeError"]
    ELSE IF resp = "http_429" /\ attempt < max_retries - 1
    THEN [next |-> "continue", work_id |-> None, raised |-> None]
    ELSE [next |-> "raise", work_id |-> None,
          raised |-> "MusicGeneratorError"]

\* one pass of the loop of generate_music, after the request got resp:
\* a 429 sleeps and continues unless this is the last pass; any other status
\* >= 400 raises HTTPError in raise_for_status, which the
\* `except requests.RequestException` handles like an exception of
\* requests.post: sleep and continue unless this is the last pass; a code
\* other than 200 and a missing work id raise MusicGeneratorError inside the
\* try, which that except clause does not catch; data null makes
\* data.get("data", {}).get raise AttributeError
generate_music_attempt(resp, attempt, max_retries) ==
    IF resp = "ok"
    THEN [next |-> "return", work_id |-> "w1", raised |-> None]
    ELSE IF resp = "data_null"
    THEN [next |-> "raise", work_id |-> None, raised |-> "AttributeError"]
    ELSE IF /\ resp \in {"http_429", "transport_error", "http_error"}
            /\ attempt < max_retries - 1
    THEN [next |-> "continue", work_id |-> None, raised |-> None]
    ELSE [next |-> "raise", work_id |-> None,
          raised |-> "MusicGeneratorError"]

\* process_voicemail after generate_music returned work_id or raised: a
\* MusicGeneratorError ends the call with None, any other exception leaves
\* process_voicemail, a work id goes to wait_for_music
process_voicemail_generated(vm, work_id, raised) ==
    IF raised = "MusicGeneratorError"
    THEN [vm EXCEPT !.pc = "done", !.failed = "generate"]
    ELSE IF raised # None
    THEN [vm EXCEPT !.pc = "done", !.failed = "generate", !.raised = raised]
    ELSE [vm EXCEPT !.pc = "wait", !.work_id = work_id]

\* what GET /v2/feed can come to in check_music_status: a
\* MusicGeneratorError (request failed or code other than 200), a task still
\* running, SUCCESS with an audio_url, SUCCESS without one, FAILED, or
\* data null
StatusResponses ==
    {"error", "pending", "success_url", "success_no_url", "failed",
     "data_null"}

\* what POST sms/json can come to in send_sms: requests.post raises, the
\* status is >= 400, the first message has status "0", it has another
\* status, or the body is a JSON array
SmsResponses ==
    {"transport_error", "http_error", "status_0", "status_1", "not_object"}

\* send_sms: True for status "0", False for another status and for a
\* requests.RequestException; a body without .get raises AttributeError
send_sms(resp) ==
    IF resp = "not_object"
    THEN [raised |-> "AttributeError", sent |-> FALSE]
    ELSE [raised |-> None, sent |-> resp = "status_0"]

\* the music generator alone, no webhook handled
VoicemailInit ==
    /\ Init
    /\ music_generator = TRUE

\* what the music generator leaves alone
VoicemailUnchanged ==
    UNCHANGED <<call_logs, recordings, files, threads, music_generator,
                uuid_seq, last, effects, response, requests, builder_vars,
                request_body, request_args, returned, lyrics_call>>

\* process_voicemail up to its call of generate_music: transcribe_audio
\* raises MusicGeneratorError or returns a text, which is tested for length
ProcessVoicemailTranscribe ==
    /\ voicemail.pc = "idle"
    /\ generate.caller = "none"
    /\ \/ /\ voicemail' = [voicemail EXCEPT !.pc = "done",
                                            !.failed = "transcribe"]
          /\ UNCHANGED generate
       \/ \E text \in Transcripts :
            IF text_too_short(text)
            THEN /\ voicemail' = [voicemail EXCEPT !.pc = "done",
                                                   !.text = text,
                                                   !.failed = "too_short"]
                 /\ UNCHANGED generate
            ELSE /\ voicemail' = [voicemail EXCEPT !.pc = "generate",
                                                   !.text = text]
                 /\ generate' = [generate_idle EXCEPT
                                    !.active = TRUE,
                                    !.caller = "process_voicemail",
                                    !.lyrics = text,
                                    !.max_retries = default_max_retries]
    /\ VoicemailUnchanged

\* a direct call generate_music(lyrics, max_retries=n) up to its loop
GenerateMusicCall ==
    /\ voicemail.pc = "idle"
    /\ generate.caller = "none"
    /\ \E lyrics \in Transcripts, max_retries \in 0..default_max_retries :
        generate' =
            IF empty_lyrics(lyrics)
            THEN [generate_idle EXCEPT !.caller = "direct",
                                       !.lyrics = lyrics,
                                       !.max_retries = max_retries,
                                       !.raised = "MusicGeneratorError"]
            ELSE [generate_idle EXCEPT !.active = TRUE,
                                       !.caller = "direct",
                                       !.lyrics = lyrics,
                                       !.max_retries = max_retries]
    /\ UNCHANGED voicemail
    /\ VoicemailUnchanged

\* one pass of the loop of generate_music: the request and what follows it
GenerateMusicAttempt ==
    /\ generate.active
    /\ generate.attempt \in generate_music_attempts(generate.max_retries)
    /\ \E resp \in GenerateResponses :
        LET pass == generate_music_attempt(resp, generate.attempt,
                                           generate.max_retries)
            made == [generate EXCEPT
                        !.responses = Append(generate.responses, resp)]
        IN  IF pass.next = "continue"
            THEN /\ generate' = [made EXCEPT !.attempt = generate.attempt + 1]
                 /\ UNCHANGED voicemail
            ELSE /\ generate' = [made EXCEPT !.active = FALSE,
                                             !.work_id = pass.work_id,
                                             !.raised = pass.raised]
                 /\ voicemail' =
                        IF generate.caller = "process_voicemail"
                        THEN process_voicemail_generated(voicemail,
                                pass.work_id, pass.raised)
                        ELSE voicemail
    /\ VoicemailUnchanged

\* the loop of generate_music ended without a return or a raise: the
\* MusicGeneratorError after the loop
GenerateMusicExhausted ==
    /\ generate.active
    /\ generate.attempt \notin generate_music_attempts(generate.max_retries)
    /\ generate' = [generate EXCEPT !.active = FALSE,
                                    !.raised = "MusicGeneratorError"]
    /\ voicemail' =
            IF generate.caller = "process_voicemail"
            THEN process_voicemail_generated(voicemail, None,
                                             "MusicGeneratorError")
            ELSE voicemail
    /\ VoicemailUnchanged

\* the loop condition of wait_for_music letting a pass start at the very
\* second the timeout has elapsed
wait_for_music_running_inclusive(elapsed) == elapsed <= wait_timeout

\* while time.time() - start_time < timeout
wait_for_music_running(elapsed) == elapsed < wait_timeout

\* one pass of wait_for_music that goes on polling after a FAILED status
wait_for_music_poll_past_failure(resp) ==
    IF resp = "success_url"
    THEN [next |-> "return", music_url |-> "http://u", raised |-> None]
    ELSE IF resp = "success_no_url"
    THEN [next |-> "return", music_url |-> None, raised |-> None]
    ELSE IF resp = "data_null"
    THEN [next |-> "raise", music_url |-> None, raised |-> "AttributeError"]
    ELSE [next |-> "sleep", music_url |-> None, raised |-> None]

\* one pass of wait_for_music that returns None on a MusicGeneratorError of
\* check_music_status
wait_for_music_poll_error_ends(resp) ==
    IF resp = "success_url"
    THEN [next |-> "return", music_url |-> "http://u", raised |-> None]
    ELSE IF resp \in {"success_no_url", "failed", "error"}
    THEN [next |-> "return", music_url |-> None, raised |-> None]
    ELSE IF resp = "data_null"
    THEN [next |-> "raise", music_url |-> None, raised |-> "AttributeError"]
    ELSE [next |-> "sleep", music_url |-> None, raised |-> None]

\* one pass of the loop of wait_for_music after check_music_status came to
\* resp: SUCCESS returns the audio_url of the first entry of response_data,
\* or None when there is none; FAILED returns None; any other type sleeps
\* poll_interval, and so does a MusicGeneratorError, which the except clause
\* of the loop catches; the AttributeError of data null is not caught
wait_for_music_poll(resp) ==
    IF resp = "success_url"
    THEN [next |-> "return", music_url |-> "http://u", raised |-> None]
    ELSE IF resp \in {"success_no_url", "failed"}
    THEN [next |-> "return", music_url |-> None, raised |-> None]
    ELSE IF resp = "data_null"
    THEN [next |-> "raise", music_url |-> None, raised |-> "AttributeError"]
    ELSE [next |-> "sleep", music_url |-> None, raised |-> None]

\* one pass of the loop of wait_for_music: check_music_status and what
\* follows it; a pass that does not return sleeps poll_interval, the least
\* by which the clock advances between two tests of the loop condition
WaitForMusicPoll ==
    /\ voicemail.pc = "wait"
    /\ wait_for_music_running(voicemail.elapsed)
    /\ \E resp \in StatusResponses :
        LET pass == wait_for_music_poll(resp)
            polled == [voicemail EXCEPT !.polls = voicemail.polls + 1,
                                        !.status = resp,
                                        !.seen = voicemail.seen \cup {resp}]
        IN  voicemail' =
                IF pass.next = "sleep"
                THEN [polled EXCEPT
                        !.elapsed = voicemail.elapsed + poll_interval]
                ELSE IF pass.next = "raise"
                THEN [polled EXCEPT !.pc = "done", !.failed = "poll",
                                    !.raised = pass.raised]
                ELSE IF pass.music_url = None
                THEN [polled EXCEPT !.pc = "done", !.failed = "poll"]
                ELSE [polled EXCEPT !.pc = "sms",
                                    !.music_url = pass.music_url]
    /\ UNCHANGED generate
    /\ VoicemailUnchanged

\* the loop of wait_for_music ended by the timeout: None
WaitForMusicTimeout ==
    /\ voicemail.pc = "wait"
    /\ ~wait_for_music_running(voicemail.elapsed)
    /\ voicemail' = [voicemail EXCEPT !.pc = "done", !.failed = "poll"]
    /\ UNCHANGED generate
    /\ VoicemailUnchanged

\* process_voicemail from send_sms to its return of music_url
ProcessVoicemailSendSms ==
    /\ voicemail.pc = "sms"
    /\ \E resp \in SmsResponses :
        voicemail' =
            IF send_sms(resp).raised # None
            THEN [voicemail EXCEPT !.pc = "done",
                                   !.sms = voicemail.sms + 1,
                                   !.raised = send_sms(resp).raised]
            ELSE [voicemail EXCEPT !.pc = "done",
                                   !.sms = voicemail.sms + 1,
                                   !.sms_sent = send_sms(resp).sent,
                                   !.result = voicemail.music_url]
    /\ UNCHANGED generate
    /\ VoicemailUnchanged

VoicemailNext ==
    \/ ProcessVoicemailTranscribe
    \/ GenerateMusicCall
    \/ GenerateMusicAttempt
    \/ GenerateMusicExhausted
    \/ WaitForMusicPoll
    \/ WaitForMusicTimeout
    \/ ProcessVoicemailSendSms

VoicemailSpec == VoicemailInit /\ [][VoicemailNext]_vars

\* the thread that runs the call is scheduled until the call ends: every
\* request has a timeout and every sleep is finite
VoicemailFairSpec == VoicemailSpec /\ WF_vars(VoicemailNext)

\* ---------------------------------------------------------------------------
\* MusicGenerator._format_lyrics
\* ---------------------------------------------------------------------------

\* the characters of a text: two letters, the blank and, written ".", the
\* ideographic full stop (U+3002) that ends a sentence
LyricsAlphabet == {"a", "b", " ", "."}

\* the texts of at most MaxLyricsLen characters
LyricsTexts == UNION {[1..n -> LyricsAlphabet] : n \in 0..MaxLyricsLen}

\* str.split(full stop): the pieces between the full stops, empty pieces included
RECURSIVE split(_)
split(text) ==
    IF \A i \in DOMAIN text : text[i] # "."
    THEN <<text>>
    ELSE LET i == CHOOSE k \in DOMAIN text :
                    /\ text[k] = "."
                    /\ \A j \in 1..(k - 1) : text[j] # "."
         IN  <<SubSeq(text, 1, i - 1)>>
                \o split(SubSeq(text, i + 1, Len(text)))

\* [line.strip() for line in text.strip().split(full stop) if line.strip()]
sentences(text) ==
    LET pieces == split(strip(text))
        stripped == [i \in DOMAIN pieces |-> strip(pieces[i])]
    IN  SelectSeq(stripped, LAMBDA line : line # <<>>)

\* "\n".join(lines)
RECURSIVE join(_)
join(lines) ==
    IF lines = <<>> THEN <<>>
    ELSE IF Len(lines) = 1 THEN lines[1]
    ELSE lines[1] \o <<"\n">> \o join(Tail(lines))

\* _format_lyrics with the midpoint rounded up
_format_lyrics_mid_rounded_up(text) ==
    LET lines == sentences(text)
        mid == (Len(lines) + 1) \div 2
    IN  IF Len(lines) <= 2
        THEN <<"[Verse]", "\n">> \o text
        ELSE <<"[Verse]", "\n">> \o join(SubSeq(lines, 1, mid))
                \o <<"\n", "\n", "[Chorus]", "\n">>
                \o join(SubSeq(lines, mid + 1, Len(lines)))

\* _format_lyrics: at most two sentences give "[Verse]\n" and the text as it
\* came; more give the sentences before mid = len(lines) // 2 as the verse
\* and those from mid on as the chorus, one sentence a line
_format_lyrics(text) ==
    LET lines == sentences(text)
        mid == Len(lines) \div 2
    IN  IF Len(lines) <= 2
        THEN <<"[Verse]", "\n">> \o text
        ELSE <<"[Verse]", "\n">> \o join(SubSeq(lines, 1, mid))
                \o <<"\n", "\n", "[Chorus]", "\n">>
                \o join(SubSeq(lines, mid + 1, Len(lines)))

\* a direct call _format_lyrics(text)
FormatLyrics ==
    /\ ~lyrics_call.called
    /\ \E text \in LyricsTexts :
        lyrics_call' = [called |-> TRUE, text |-> text,
                   formatted |-> _format_lyrics(text)]
    /\ UNCHANGED <<call_logs, recordings, files, threads, music_generator,
                   uuid_seq, last, effects, response, requests, builder_vars,
                   request_body, request_args, returned, voicemail, generate>>

LyricsNext == FormatLyrics

LyricsSpec == VoicemailInit /\ [][LyricsNext]_vars

\* the answer webhook and the event webhook alone, under both its methods
EventNext ==
    \/ AnswerWebhook
    \/ EventWebhook
    \/ EventWebhookGet

EventSpec == Init /\ [][EventNext]_vars

\* the three webhooks alone, each calling its handler, without the
\* enrichment threads running on
HandlerNext ==
    \/ AnswerWebhook
    \/ EventWebhook
    \/ RecordingWebhook

HandlerSpec == Init /\ [][HandlerNext]_vars

ConcurrentNext ==
    \/ AnswerWebhook
    \/ EventReceive
    \/ \E i \in DOMAIN requests : EventSelect(i)
    \/ \E i \in DOMAIN requests : EventUpdate(i)

ConcurrentSpec == Init /\ [][ConcurrentNext]_vars

Next ==
    \/ AnswerWebhook
    \/ EventWebhook
    \/ EventWebhookGet
    \/ RecordingWebhook
    \/ ProcessMusicGeneration

Spec == Init /\ [][Next]_vars

\* ===========================================================================
\* Properties
\* ===========================================================================

\* C1: every stored CallLog has ended_at non-null if and only if its status
\* is one of completed, failed, rejected, busy, cancelled, timeout, unanswered.
C1_EndedAtIffTerminal ==
    \A i \in DOMAIN call_logs :
        (call_logs[i].ended_at # None)
            <=> (call_logs[i].status \in {"completed", "failed", "rejected",
                                          "busy", "cancelled", "timeout",
                                          "unanswered"})

\* an event closed one CallLog while another CallLog is still open
C1_Witness ==
    /\ last.op = "event"
    /\ \E i, j \in DOMAIN call_logs :
        /\ call_logs[i].status = "completed"
        /\ call_logs[i].ended_at # None
        /\ call_logs[j].status \in {"answered", "ringing", ""}
        /\ call_logs[j].ended_at = None

\* C2 (as claimed): handle_event for a call_uuid that has a CallLog sets the
\* CallLog's status to the event's status, and its ended_at to the event's
\* parsed timestamp when that status is terminal and to null otherwise.
\* (An event neither adds nor removes rows nor changes a call_uuid, so the
\* rows that carry the event's uuid after the event are those before it.)
C2_EventSetsStatusAndEndedAt ==
    (last.op = "event" /\ last.fault = "none")
        => \A i \in DOMAIN call_logs :
            call_logs[i].call_uuid = Get(last.data, "uuid", "")
                => /\ call_logs[i].status = Get(last.data, "status", "")
                   /\ call_logs[i].ended_at =
                        IF Get(last.data, "status", "")
                            \in {"completed", "failed", "rejected", "busy",
                                 "cancelled", "timeout", "unanswered"}
                        THEN IF Get(last.data, "timestamp", "")
                                \in DOMAIN IsoTimestamps
                             THEN IsoTimestamps[last.data.timestamp]
                             ELSE last.now
                        ELSE None

\* C2 (amended): the same, for a non-empty call_uuid that has a CallLog; an
\* event without uuid, or with an empty one, updates nothing.
C2_EventSetsStatusAndEndedAt_NonEmptyUuid ==
    Get(last.data, "uuid", "") # "" => C2_EventSetsStatusAndEndedAt

\* a terminal event with a well-formed timestamp was applied to a CallLog
C2_Witness ==
    /\ last.op = "event"
    /\ last.fault = "none"
    /\ Get(last.data, "uuid", "") # ""
    /\ Get(last.data, "status", "") = "completed"
    /\ Get(last.data, "timestamp", "") \in DOMAIN IsoTimestamps
    /\ \E i \in DOMAIN call_logs :
        /\ call_logs[i].call_uuid = last.data.uuid
        /\ call_logs[i].ended_at = IsoTimestamps[last.data.timestamp]

\* C3: handle_event for a call_uuid that has no CallLog returns normally (the
\* event webhook answers 200) and neither creates nor changes any CallLog.
C3_EventForUnknownUuid ==
    [][(/\ last'.op = "event"
        /\ last'.fault = "none"
        /\ \A i \in DOMAIN call_logs :
              call_logs[i].call_uuid # Get(last'.data, "uuid", ""))
       => (/\ call_logs' = call_logs
           /\ response'.raised = None
           /\ response'.status = 200
           /\ response'.body = [status |-> "ok"])]_vars

\* an event for a uuid without CallLog was handled while other CallLogs exist
C3_Witness ==
    /\ last.op = "event"
    /\ last.fault = "none"
    /\ Get(last.data, "uuid", "") # ""
    /\ Get(last.data, "status", "") = "completed"
    /\ call_logs # <<>>
    /\ \A i \in DOMAIN call_logs : call_logs[i].call_uuid # last.data.uuid
    /\ response.status = 200


C6_AnswerStorageFailurePropagates ==
    (last.op = "answer" /\ last.fault = "save_call_log")
        => /\ response.raised = "StorageError"
           /\ response.status # 200
           /\ response.status = 500
           /\ response.body.error = "internal_error"

\* an answer webhook met a failing save_call_log
C6_Witness ==
    /\ last.op = "answer"
    /\ last.fault = "save_call_log"
    /\ Get(last.data, "uuid", "") # ""
    /\ response.status = 500

\* C7 (as claimed): the Recording metadata is written to storage before the
\* audio download is attempted and before any enrichment task is started.
C7_PersistBeforeDownloadAndEnrichment ==
    last.op = "recording"
        => \A i, j \in DOMAIN effects :
            (/\ effects[i].call = "storage.save_recording"
             /\ effects[j].call \in {"download_recording", "thread_start"})
                => i < j

\* C7 (amended): the audio download is attempted first and the Recording
\* metadata is written to storage after it, whether or not the download
\* succeeded; the metadata is written before any enrichment task is started.
C7_DownloadThenPersistThenEnrichment ==
    last.op = "recording"
        => /\ \A i, j \in DOMAIN effects :
                /\ (/\ effects[i].call = "download_recording"
                    /\ effects[j].call = "storage.save_recording") => i < j
                /\ (/\ effects[i].call = "storage.save_recording"
                    /\ effects[j].call = "thread_start") => i < j
           /\ \A j \in DOMAIN effects :
                effects[j].call \in {"download_recording", "thread_start"}
                    => \E i \in DOMAIN effects :
                        effects[i].call = "storage.save_recording"

\* a recording webhook downloaded the audio, persisted and started a thread
C7_Witness ==
    /\ last.op = "recording"
    /\ last.fault = "none"
    /\ Calls(effects) = <<"download_recording", "storage.save_recording",
                          "get_call_log", "thread_start">>

\* C8: a failed audio download neither aborts nor fails saveRecording: the
\* Recording row is still persisted, the caller sees no error, and the
\* recording's local_file_path stays null.
C8_FailedDownloadStillPersists ==
    [][(/\ last'.op = "recording"
        /\ last'.dl = "failed"
        /\ last'.fault = "none")
       => (/\ Len(recordings') = Len(recordings) + 1
           /\ recordings'[Len(recordings')].recording_url
                = last'.data.recording_url
           /\ \A i \in DOMAIN recordings :
                recordings[i].id # recordings'[Len(recordings')].id
           /\ Call("storage.save_recording", None) \in
                {effects'[i] : i \in DOMAIN effects'}
           /\ files' = files
           /\ response'.raised = None
           /\ response'.status = 200)]_vars

\* a recording whose download failed was handled after another recording
C8_Witness ==
    /\ last.op = "recording"
    /\ last.dl = "failed"
    /\ last.fault = "none"
    /\ Len(recordings) = 2
    /\ response.status = 200

\* C9 (as claimed): the recording webhook spawns an enrichment task only if
\* enrichment is enabled, a caller number is resolved from the CallLog of the
\* call, and the audio download of the recording succeeded.
C9_SpawnOnlyWithLocalFile ==
    [][Len(threads') > Len(threads)
       => (/\ music_generator
           /\ \E i \in DOMAIN call_logs :
                /\ call_logs[i].call_uuid
                    = Get(last'.data, "conversation_uuid", "")
                /\ call_logs[i].caller_number # ""
           /\ last'.dl = "ok")]_vars

\* C10: a recording webhook that arrives when no CallLog matches its call
\* identity still persists the Recording and returns normally, and starts no
\* enrichment task.
C10_RecordingWithoutCallLog ==
    [][(/\ last'.op = "recording"
        /\ last'.fault = "none"
        /\ \A i \in DOMAIN call_logs :
              call_logs[i].call_uuid
                # Get(last'.data, "conversation_uuid", ""))
       => (/\ Len(recordings') = Len(recordings) + 1
           /\ recordings'[Len(recordings')].call_uuid
                = Get(last'.data, "conversation_uuid", "")
           /\ threads' = threads
           /\ response'.raised = None
           /\ response'.status = 200)]_vars

\* with enrichment enabled and the audio downloaded, a recording was handled
\* whose conversation has no CallLog while another call has one
C10_Witness ==
    /\ last.op = "recording"
    /\ last.fault = "none"
    /\ last.dl = "ok"
    /\ music_generator
    /\ call_logs # <<>>
    /\ \A i \in DOMAIN call_logs :
          /\ call_logs[i].call_uuid # Get(last.data, "conversation_uuid", "")
          /\ call_logs[i].caller_number # ""
    /\ recordings # <<>>
    /\ response.status = 200

\* C11 (as claimed): delivering the same recording webhook payload twice
\* leaves a single Recording for it; the second delivery overwrites the row
\* stored by the first instead of adding a row.
C11_DuplicateDeliveryOverwrites ==
    [][(/\ last.op = "recording"
        /\ last.fault = "none"
        /\ last'.op = "recording"
        /\ last'.fault = "none"
        /\ DOMAIN last'.data = DOMAIN last.data
        /\ "recording_uuid" \in DOMAIN last.data
        /\ \A k \in DOMAIN last.data : last'.data[k] = last.data[k])
       => Len(recordings') = Len(recordings)]_vars

\* C12: a handle_answer invocation adds exactly one new CallLog row, with
\* status "answered", ended_at null, direction "inbound" and the call_uuid,
\* caller and called numbers of the request ("" for a missing field); the
\* rows stored before, those of the same call_uuid included, are unchanged.
C12_AnswerAddsOneRow ==
    [][(last'.op = "answer" /\ last'.fault = "none")
       => (/\ Len(call_logs') = Len(call_logs) + 1
           /\ SubSeq(call_logs', 1, Len(call_logs)) = call_logs
           /\ \A i \in DOMAIN call_logs :
                call_logs[i].id # call_logs'[Len(call_logs')].id
           /\ call_logs'[Len(call_logs')].status = "answered"
           /\ call_logs'[Len(call_logs')].ended_at = None
           /\ call_logs'[Len(call_logs')].direction = "inbound"
           /\ call_logs'[Len(call_logs')].call_uuid
                = Get(last'.data, "uuid", "")
           /\ call_logs'[Len(call_logs')].caller_number
                = Get(last'.data, "from", "")
           /\ call_logs'[Len(call_logs')].called_number
                = Get(last'.data, "to", ""))]_vars

\* the answer webhook was delivered twice for the same call
C12_Witness ==
    /\ last.op = "answer"
    /\ last.fault = "none"
    /\ Len(call_logs) = 2
    /\ call_logs[1].call_uuid = "u1"
    /\ call_logs[2].call_uuid = "u1"
    /\ call_logs[1].id # call_logs[2].id

\* C13: handle_event is idempotent: applied a second time in a row with the
\* same payload (same uuid, status and parsable timestamp) it leaves the
\* CallLog table as the first application left it.
C13_EventIdempotent ==
    [][(/\ last.op = "event"
        /\ last.fault = "none"
        /\ last'.op = "event"
        /\ last'.fault = "none"
        /\ SameDict(last.data, last'.data)
        /\ Get(last.data, "timestamp", "") \in DOMAIN IsoTimestamps)
       => call_logs' = call_logs]_vars

\* a terminal event with a parsable timestamp was applied twice in a row to a
\* call that has two CallLog rows
C13_Witness ==
    /\ last.op = "event"
    /\ last.repeat
    /\ Get(last.data, "status", "") = "completed"
    /\ Get(last.data, "timestamp", "") \in DOMAIN IsoTimestamps
    /\ Len(call_logs) = 2
    /\ \A i \in DOMAIN call_logs :
        /\ call_logs[i].call_uuid = Get(last.data, "uuid", "")
        /\ call_logs[i].status = "completed"
        /\ call_logs[i].ended_at = IsoTimestamps[last.data.timestamp]

\* C14 (as claimed): handle_event enforces no transition order: for an
\* existing CallLog in any status, terminal statuses included, an event
\* carrying any status string replaces the stored status with that string.
C14_AnyStatusReplacesStored ==
    (last.op = "event" /\ last.fault = "none" /\ last.prior # {})
        => \A i \in DOMAIN call_logs :
            call_logs[i].call_uuid = Get(last.data, "uuid", "")
                => call_logs[i].status = Get(last.data, "status", "")

\* C14 (amended): the same for a CallLog whose call_uuid is not empty; the
\* CallLog of an answer webhook that carried no uuid is never updated.
C14_AnyStatusReplacesStored_NonEmptyUuid ==
    Get(last.data, "uuid", "") # "" => C14_AnyStatusReplacesStored

\* an event reopened a call that had ended: a CallLog in a terminal status
\* was set to "ringing"
C14_Witness ==
    /\ last.op = "event"
    /\ last.fault = "none"
    /\ Get(last.data, "uuid", "") # ""
    /\ Get(last.data, "status", "") = "ringing"
    /\ "completed" \in last.prior
    /\ \E i \in DOMAIN call_logs :
        /\ call_logs[i].call_uuid = last.data.uuid
        /\ call_logs[i].status = "ringing"
        /\ call_logs[i].ended_at = None

\* C15: the recording webhook returns without waiting for the enrichment
\* task: when handle_recording has answered, the task it started is still
\* running; and a task that ends, in whatever way, changes neither the
\* response of the webhook nor the stored CallLogs and Recordings.
C15_WebhookDoesNotWaitForTask ==
    [][/\ (last'.op = "recording" /\ Len(threads') > Len(threads))
            => /\ threads'[Len(threads')].state = "running"
               /\ response'.raised = None
               /\ response'.status = 200
               /\ response'.body = [status |-> "ok"]
       /\ last'.op = "thread"
            => /\ response' = response
               /\ call_logs' = call_logs
               /\ recordings' = recordings]_vars

\* the task of a recording webhook answered with 200 ended with an exception
C15_Witness ==
    /\ last.op = "thread"
    /\ \E i \in DOMAIN threads : threads[i].state = "error"
    /\ response.status = 200
    /\ response.body = [status |-> "ok"]

\* C16: when event webhooks for the same call_uuid are handled concurrently,
\* in every interleaving each CallLog holds the status and the ended_at of
\* one single event: the pair an answer stored, or the pair of an event that
\* committed for its call_uuid, never the status of one event with the
\* ended_at of another; and the event that commits installs its own pair in
\* every CallLog of its call_uuid (the last writer wins).
C16_LastWriterWins ==
    /\ [](\A j \in DOMAIN call_logs :
            \/ /\ call_logs[j].status = "answered"
               /\ call_logs[j].ended_at = None
            \/ \E i \in DOMAIN requests :
                /\ requests[i].wrote > 0
                /\ requests[i].call_uuid = call_logs[j].call_uuid
                /\ requests[i].status = call_logs[j].status
                /\ requests[i].ended_at = call_logs[j].ended_at)
    /\ [][\A i \in DOMAIN requests :
            (requests[i].wrote = 0 /\ requests'[i].wrote > 0)
                => /\ requests'[i].wrote = Commits + 1
                   /\ \A j \in DOMAIN call_logs' :
                        call_logs'[j].call_uuid = requests[i].call_uuid
                            => /\ call_logs'[j].status = requests[i].status
                               /\ call_logs'[j].ended_at
                                    = requests[i].ended_at]_vars

\* two events for the same call were in flight together, a "completed" one
\* and a "ringing" one; both found the CallLog, the "completed" one committed
\* first and the "ringing" one last
C16_Witness ==
    /\ Len(requests) = 2
    /\ requests[1].call_uuid = requests[2].call_uuid
    /\ requests[1].status = "completed"
    /\ requests[2].status = "ringing"
    /\ requests[1].wrote = 1
    /\ requests[2].wrote = 2
    /\ \E j \in DOMAIN call_logs :
        /\ call_logs[j].call_uuid = requests[1].call_uuid
        /\ call_logs[j].status = "ringing"
        /\ call_logs[j].ended_at = None

\* C17: no answer, recording or event webhook deletes a CallLog or a
\* Recording: the set of stored CallLog ids and the set of stored Recording
\* ids only grow.
C17_NothingDeleted ==
    [][/\ {call_logs[i].id : i \in DOMAIN call_logs}
            \subseteq {call_logs'[i].id : i \in DOMAIN call_logs'}
       /\ {recordings[i].id : i \in DOMAIN recordings}
            \subseteq {recordings'[i].id : i \in DOMAIN recordings'}]_vars

\* the answer, recording and event webhooks of one call were handled: its
\* CallLog, now "completed", and its Recording are stored
C17_Witness ==
    /\ last.op = "event"
    /\ Len(call_logs) = 1
    /\ call_logs[1].call_uuid = "c1"
    /\ call_logs[1].status = "completed"
    /\ Len(recordings) = 1
    /\ recordings[1].call_uuid = "c1"

\* C18 (as claimed): after handle_recording a Recording can be looked up
\* under call_uuid equal to the payload's conversation_uuid; it carries the
\* payload's recording_url, duration and size, status "completed" and a blank
\* caller_number.
C18_RecordingLookedUpByConversation ==
    (/\ last.op = "recording"
     /\ last.fault = "none"
     /\ "conversation_uuid" \in DOMAIN last.data
     /\ Len(recordings) = 1)
        => LET found == get_recording(recordings, last.data.conversation_uuid)
           IN  /\ found.raised = None
               /\ found.value # <<>>
               /\ found.value[1].recording_url
                    = Get(last.data, "recording_url", "")
               /\ found.value[1].duration = Get(last.data, "duration", 0)
               /\ found.value[1].file_size = Get(last.data, "size", 0)
               /\ found.value[1].status = "completed"
               /\ found.value[1].caller_number = ""

\* C19: for every valid configuration and every call identifier,
\* build_voicemail_ncco returns exactly two instructions in the order
\* [talk, record], with talk.bargeIn false and record.beepStart true; the
\* result is determined by the configuration alone, whatever the call
\* identifier and whatever is stored. The same holds for the NCCO with which
\* the answer webhook responds.
C19_VoicemailNcco ==
    LET expected ==
            <<[action |-> "talk",
               text |-> builder_config.greeting_message,
               language |-> builder_config.greeting_language,
               style |-> builder_config.greeting_style,
               bargeIn |-> FALSE],
              [action |-> "record",
               eventUrl |-> <<builder_config.recording_url>>,
               endOnSilence |-> builder_config.end_on_silence,
               endOnKey |-> "#",
               beepStart |-> TRUE,
               timeOut |-> builder_config.max_recording_duration,
               format |-> builder_config.recording_format]>>
    IN  /\ built_ncco # <<>>
            => /\ Len(built_ncco) = 2
               /\ built_ncco[1].action = "talk"
               /\ built_ncco[2].action = "record"
               /\ built_ncco[1].bargeIn = FALSE
               /\ built_ncco[2].beepStart = TRUE
               /\ built_ncco = expected
        /\ (last.op = "answer" /\ last.fault = "none")
            => response.body = expected

\* with a configuration other than the default one and two CallLogs stored,
\* the NCCO was built for a call identifier and returned by an answer webhook
C19_Witness ==
    /\ builder_config.recording_format = "WAV"
    /\ builder_config.greeting_style = 1
    /\ builder_config.end_on_silence = 0
    /\ built_ncco # <<>>
    /\ ncco_call_uuid = "u1"
    /\ last.op = "answer"
    /\ last.fault = "none"
    /\ Len(call_logs) = 2

\* C20 (as claimed): a POST to the recording or event webhook whose body is
\* malformed JSON, or a JSON value that is not an object, is rejected with
\* HTTP 400 and a body holding error, message and status_code 400, and it
\* creates or changes no CallLog and no Recording.
C20_NonObjectBodyRejected ==
    [][(/\ last'.op \in {"recording", "recording_rejected",
                         "event", "event_rejected"}
        /\ request_body' \in {"malformed", "null", "array", "string"})
       => (/\ response'.status = 400
           /\ DOMAIN response'.body = {"error", "message", "status_code"}
           /\ response'.body.status_code = 400
           /\ call_logs' = call_logs
           /\ recordings' = recordings)]_vars


\* the fields an event request carried: its query parameters when it came
\* without a body (GET), the object of its body otherwise (POST)
C21_RequestFields ==
    IF request_body = "none" THEN request_args ELSE last.data

C22_EventGet ==
    last.op \in {"event", "event_rejected"} /\ request_body = "none"

C23_UpdateReturnsWhetherFound ==
    [][returned'.op = "update_call_log_status"
        => LET call_uuid == returned'.args[1]
               exists == \E i \in DOMAIN call_logs :
                            call_logs[i].call_uuid = call_uuid
           IN  /\ returned'.raised = None
               /\ returned'.updated = exists
               /\ ~exists => call_logs' = call_logs]_vars

\* an update returned true for a call that has a CallLog, which is now
\* completed, while the CallLog of another call is still as it was saved
C23_Witness ==
    /\ returned.op = "update_call_log_status"
    /\ returned.updated = TRUE
    /\ \E i, j \in DOMAIN call_logs :
        /\ call_logs[i].call_uuid = returned.args[1]
        /\ call_logs[i].status = "completed"
        /\ call_logs[i].ended_at = returned.args[3]
        /\ call_logs[j].call_uuid # returned.args[1]
        /\ call_logs[j].status = "answered"

\* C24: the storage save_recording is an upsert by id: after a save there is
\* exactly one row with the id of the Recording, it carries the values of this
\* save (so the later of two saves with one id and different durations), and
\* the rows of every other id are as they were.
C24_SaveRecordingUpserts ==
    [][returned'.op = "save_recording"
        => LET id == returned'.args[1].id
               saved == {i \in DOMAIN recordings' : recordings'[i].id = id}
           IN  /\ Cardinality(saved) = 1
               /\ \A i \in saved :
                    /\ recordings'[i].duration = returned'.args[1].duration
                    /\ \A k \in DOMAIN recordings'[i] :
                        recordings'[i][k] = returned'.args[1][k]
               /\ SelectSeq(recordings', LAMBDA r : r.id # id)
                    = SelectSeq(recordings, LAMBDA r : r.id # id)]_vars

\* a Recording was saved under an id that was stored with another duration:
\* the one row of the id has the new duration, next to a row of another id
C24_Witness ==
    /\ returned.op = "save_recording"
    /\ returned.found # <<>>
    /\ returned.found[1].duration # returned.args[1].duration
    /\ Len(recordings) = 2
    /\ \E i, j \in DOMAIN recordings :
        /\ recordings[i].id = returned.args[1].id
        /\ recordings[i].duration = returned.args[1].duration
        /\ recordings[j].id # returned.args[1].id

\* C25 as stated: list_recordings(start, end) returns exactly the Recordings
\* with start <= created_at <= end, an absent bound not filtering, in strictly
\* descending order of created_at.
C25_ListRecordingsInRange ==
    [][returned'.op = "list_recordings"
        => LET start_date == returned'.args[1]
               end_date == returned'.args[2]
               value == returned'.value
               in_range ==
                   {i \in DOMAIN recordings :
                       /\ start_date # None
                            => CreatedAtRank[recordings[i].created_at]
                                >= CreatedAtRank[start_date]
                       /\ end_date # None
                            => CreatedAtRank[recordings[i].created_at]
                                <= CreatedAtRank[end_date]}
           IN  /\ returned'.raised = None
               /\ {value[i].id : i \in DOMAIN value}
                    = {recordings[i].id : i \in in_range}
               /\ Len(value) = Cardinality(in_range)
               /\ \A i, j \in DOMAIN value :
                    i < j => CreatedAtRank[value[i].created_at]
                                > CreatedAtRank[value[j].created_at]]_vars


\* C26 as stated: process_voicemail never raises; when the transcription, the
\* generation or the polling fails, no later stage runs and the result is
\* null; and the result is the URL exactly when the polling produced one.
C26_ProcessVoicemailNeverRaises ==
    voicemail.pc = "done"
        => /\ voicemail.raised = None
           /\ voicemail.failed = "transcribe"
                => /\ generate.responses = <<>>
                   /\ voicemail.polls = 0
                   /\ voicemail.sms = 0
                   /\ voicemail.result = None
           /\ voicemail.failed = "generate"
                => /\ voicemail.polls = 0
                   /\ voicemail.sms = 0
                   /\ voicemail.result = None
           /\ voicemail.failed = "poll"
                => /\ voicemail.sms = 0
                   /\ voicemail.result = None
           /\ voicemail.result = voicemail.music_url

\* C27: when the transcript has fewer than 5 characters after trimming, the
\* pipeline stops after the transcription: generate_music is not called and
\* makes no request, nothing is polled, no SMS is sent and the result is
\* null.
C27_ShortTranscriptStops ==
    (/\ voicemail.pc # "idle"
     /\ voicemail.failed # "transcribe"
     /\ Len(strip(voicemail.text)) < 5)
        => /\ voicemail.pc = "done"
           /\ voicemail.failed = "too_short"
           /\ generate = generate_idle
           /\ voicemail.polls = 0
           /\ voicemail.sms = 0
           /\ voicemail.raised = None
           /\ voicemail.result = None

\* the transcript was four letters between two blanks, six characters in
\* all, and process_voicemail ended without a request
C27_Witness ==
    /\ voicemail.pc = "done"
    /\ voicemail.text = <<" ", "a", "b", "c", "d", " ">>
    /\ voicemail.failed = "too_short"
    /\ generate.responses = <<>>
    /\ voicemail.result = None

\* C28 as stated: the SMS is sent if and only if the polling obtained a URL,
\* at most once and only after the polling; and the result is the URL
\* whether the SMS succeeds or fails.
C28_SmsIffUrl ==
    /\ voicemail.sms <= 1
    /\ voicemail.sms = 1 => voicemail.music_url # None
    /\ (voicemail.pc = "done" /\ voicemail.music_url # None)
        => /\ voicemail.sms = 1
           /\ voicemail.raised = None
           /\ voicemail.result = voicemail.music_url

\* C29: generate_music issues at most max_retries requests per call (3 by
\* default), every call ends, and a call whose last request was answered 429
\* has made max_retries requests and ended with a MusicGeneratorError.
C29_GenerateMusicBounded ==
    /\ [](Len(generate.responses) <= generate.max_retries)
    /\ [](generate.active => <>(~generate.active))
    /\ []((/\ ~generate.active
           /\ generate.responses # <<>>
           /\ generate.responses[Len(generate.responses)] = "http_429")
            => /\ Len(generate.responses) = generate.max_retries
               /\ generate.raised = "MusicGeneratorError")

\* a call with the default max_retries was answered 429 three times and
\* gave up with a MusicGeneratorError
C29_Witness ==
    /\ ~generate.active
    /\ generate.max_retries = default_max_retries
    /\ generate.responses = <<"http_429", "http_429", "http_429">>
    /\ generate.raised = "MusicGeneratorError"

\* a pass of the loop of generate_music was made: one more request
C30_Attempt ==
    Len(generate'.responses) = Len(generate.responses) + 1

\* C30 as stated: a generation request that fails for a reason other than
\* 429 (a transport error or another HTTP error) is not retried.
C30_OtherFailuresNotRetried ==
    [][(/\ C30_Attempt
        /\ generate'.responses[Len(generate'.responses)]
                \in {"transport_error", "http_error"})
        => /\ ~generate'.active
           /\ generate'.raised = "MusicGeneratorError"]_vars

\* C30: a generation request that fails with a transport error or with an
\* HTTP error status is retried like one answered 429 as long as a pass of
\* the loop remains, and ends the call with a MusicGeneratorError on the last
\* pass; a request answered with an error code or without a work id is not
\* retried.
C30_FailuresRetried ==
    [][C30_Attempt
        => LET resp == generate'.responses[Len(generate'.responses)]
               more == generate.attempt < generate.max_retries - 1
           IN  /\ (resp \in {"transport_error", "http_error", "http_429"}
                        /\ more)
                    => /\ generate'.active
                       /\ generate'.attempt = generate.attempt + 1
               /\ (resp \in {"transport_error", "http_error", "http_429"}
                        /\ ~more)
                    => /\ ~generate'.active
                       /\ generate'.raised = "MusicGeneratorError"
               /\ resp \in {"code_error", "no_work_id"}
                    => /\ ~generate'.active
                       /\ generate'.raised = "MusicGeneratorError"]_vars

\* a request failed in transport and was made again, the next was answered
\* with an HTTP error and was made again, and the third got the work id
C30_Witness ==
    /\ generate.responses = <<"transport_error", "http_error", "ok">>
    /\ ~generate.active
    /\ generate.work_id = "w1"


\* C31: wait_for_music always terminates: whatever pending statuses and
\* status-check errors it gets, it leaves its loop; it starts no poll once
\* the timeout has elapsed, and what it does then is return, without a URL.
C31_WaitForMusicTerminates ==
    /\ [](voicemail.pc = "wait" => <>(voicemail.pc # "wait"))
    /\ [][voicemail'.polls > voicemail.polls
            => voicemail.elapsed < wait_timeout]_vars
    /\ [][(voicemail.pc = "wait" /\ voicemail.elapsed >= wait_timeout)
            => /\ voicemail'.pc = "done"
               /\ voicemail'.polls = voicemail.polls
               /\ voicemail'.music_url = None
               /\ voicemail'.raised = None]_vars

\* wait_for_music got pending statuses and status-check errors only, polled
\* once per interval for the whole timeout and returned without a URL
C31_Witness ==
    /\ voicemail.pc = "done"
    /\ voicemail.seen = {"pending", "error"}
    /\ voicemail.elapsed = wait_timeout
    /\ voicemail.polls * poll_interval = wait_timeout
    /\ voicemail.music_url = None
    /\ voicemail.raised = None

\* C32 as stated: in wait_for_music a success status yields a playable URL,
\* a failure status or a timeout yields no URL, and after the first success
\* or failure status no further poll is made.
C32_SuccessYieldsUrl ==
    [][/\ voicemail'.polls > voicemail.polls
            => /\ voicemail.seen
                    \cap {"success_url", "success_no_url", "failed"} = {}
               /\ voicemail'.status \in {"success_url", "success_no_url"}
                    => /\ voicemail'.music_url # None
                       /\ voicemail'.pc # "wait"
               /\ voicemail'.status = "failed"
                    => /\ voicemail'.music_url = None
                       /\ voicemail'.pc = "done"
       /\ (voicemail.pc = "wait" /\ voicemail'.polls = voicemail.polls)
            => voicemail'.music_url = None]_vars

\* C32: a success status that carries an audio URL yields that URL; a success
\* status without one, a failure status or a timeout yields no URL; after
\* the first success or failure status no further poll is made.
C32_SuccessWithUrlYieldsUrl ==
    [][/\ voicemail'.polls > voicemail.polls
            => /\ voicemail.seen
                    \cap {"success_url", "success_no_url", "failed"} = {}
               /\ voicemail'.status = "success_url"
                    => /\ voicemail'.music_url = "http://u"
                       /\ voicemail'.pc = "sms"
               /\ voicemail'.status \in {"success_no_url", "failed"}
                    => /\ voicemail'.music_url = None
                       /\ voicemail'.pc = "done"
       /\ (voicemail.pc = "wait" /\ voicemail'.polls = voicemail.polls)
            => voicemail'.music_url = None]_vars

\* the task was reported SUCCESS without an audio URL after it had been
\* pending, and wait_for_music returned without a URL
C32_Witness ==
    /\ voicemail.pc = "done"
    /\ voicemail.status = "success_no_url"
    /\ "pending" \in voicemail.seen
    /\ voicemail.music_url = None
    /\ voicemail.result = None

\* C33: a status-check error during the polling does not end wait_for_music:
\* the pass sleeps the poll interval and the loop goes on, with no URL and no
\* exception, until a success status, a failure status or the timeout.
C33_StatusErrorKeepsPolling ==
    [][(voicemail'.polls > voicemail.polls /\ voicemail'.status = "error")
        => /\ voicemail'.pc = "wait"
           /\ voicemail'.elapsed = voicemail.elapsed + poll_interval
           /\ voicemail'.music_url = None
           /\ voicemail'.raised = None]_vars

\* a status check failed, a later one reported SUCCESS with an audio URL,
\* and wait_for_music returned that URL
C33_Witness ==
    /\ "error" \in voicemail.seen
    /\ voicemail.status = "success_url"
    /\ voicemail.polls >= 2
    /\ voicemail.pc = "sms"
    /\ voicemail.music_url = "http://u"


\* the text of a verse block with the first k sentences and a chorus block
\* with the others, one sentence a line
C34_VerseChorus(lines, k) ==
    <<"[Verse]", "\n">> \o join(SubSeq(lines, 1, k))
        \o <<"\n", "\n", "[Chorus]", "\n">>
        \o join(SubSeq(lines, k + 1, Len(lines)))

\* C34 as stated: a transcript with n non-empty sentences is formatted, for
\* n <= 2, as a single verse block with the whole text and, for n > 2, as a
\* verse block with the first ceil(n/2) sentences and a chorus block with
\* the remaining floor(n/2), in order.
C34_VerseGetsLargerHalf ==
    lyrics_call.called
        => LET lines == sentences(lyrics_call.text)
               n == Len(lines)
           IN  lyrics_call.formatted =
                    IF n <= 2 THEN <<"[Verse]", "\n">> \o lyrics_call.text
                    ELSE C34_VerseChorus(lines, n - (n \div 2))

\* C34: a transcript with n non-empty sentences is formatted, for n <= 2, as
\* a single verse block with the whole text and, for n > 2, as a verse block
\* with the first floor(n/2) sentences and a chorus block with the remaining
\* ceil(n/2), in order.
C34_ChorusGetsLargerHalf ==
    lyrics_call.called
        => LET lines == sentences(lyrics_call.text)
               n == Len(lines)
           IN  lyrics_call.formatted =
                    IF n <= 2 THEN <<"[Verse]", "\n">> \o lyrics_call.text
                    ELSE C34_VerseChorus(lines, n \div 2)

\* a text of three sentences came out as a verse of one line, the first
\* sentence, and a chorus of two, the second and the third
C34_Witness ==
    /\ lyrics_call.called
    /\ lyrics_call.text = <<"a", ".", "b", ".", "a", "b">>
    /\ lyrics_call.formatted = <<"[Verse]", "\n", "a", "\n", "\n", "[Chorus]",
                            "\n", "b", "\n", "a", "b">>

\* C35: handle_event changes only the status and ended_at of the CallLog it
\* matches: the id, call_uuid, caller_number, called_number, direction,
\* started_at and created_at of every CallLog keep their values, no CallLog
\* is added or removed, and a CallLog with a call_uuid other than the
\* event's does not change at all.
C35_EventChangesOnlyStatusAndEndedAt ==
    [][last'.op = "event"
        => /\ Len(call_logs') = Len(call_logs)
           /\ \A i \in DOMAIN call_logs :
                /\ \A f \in {"id", "call_uuid", "caller_number",
                             "called_number", "direction", "started_at",
                             "created_at"} :
                        call_logs'[i][f] = call_logs[i][f]
                /\ call_logs[i].call_uuid # Get(last'.data, "uuid", "")
                        => call_logs'[i] = call_logs[i]]_vars

\* the failed event of the call "c1" was written to the CallLog of "c1",
\* which kept its id and started_at, while the CallLog of "u1" is as the
\* answer webhook stored it
C35_Witness ==
    /\ last.op = "event"
    /\ Get(last.data, "uuid", "") = "c1"
    /\ Len(call_logs) = 2
    /\ call_logs[1].call_uuid = "u1"
    /\ call_logs[1].status = "answered"
    /\ call_logs[1].ended_at = None
    /\ call_logs[2].call_uuid = "c1"
    /\ call_logs[2].id = uuid4(2)
    /\ call_logs[2].status = "failed"
    /\ call_logs[2].ended_at = "2024-01-15T10:05:00+00:00"
    /\ call_logs[2].started_at = "2024-01-15T10:06:00.000001"

\* C36: handle_event updates every CallLog row that shares the event's
\* call_uuid: after an event whose storage update did not fail, all the rows
\* of the event's call_uuid, however many answer webhooks created them, have
\* the event's status and one and the same ended_at.
C36_EventUpdatesEveryRowOfCall ==
    (last.op = "event" /\ last.fault = "none"
            /\ Get(last.data, "uuid", "") # "")
        => \A i, j \in DOMAIN call_logs :
            (/\ call_logs[i].call_uuid = Get(last.data, "uuid", "")
             /\ call_logs[j].call_uuid = Get(last.data, "uuid", ""))
                => /\ call_logs[i].status = Get(last.data, "status", "")
                   /\ call_logs[i].status = call_logs[j].status
                   /\ call_logs[i].ended_at = call_logs[j].ended_at

\* two answer webhooks stored two rows for the call "u1", and the completed
\* event of "u1" closed both of them at the same time
C36_Witness ==
    /\ last.op = "event"
    /\ last.fault = "none"
    /\ Get(last.data, "uuid", "") = "u1"
    /\ Len(call_logs) = 2
    /\ call_logs[1].id # call_logs[2].id
    /\ \A i \in 1..2 :
        /\ call_logs[i].call_uuid = "u1"
        /\ call_logs[i].status = "completed"
        /\ call_logs[i].ended_at = "2024-01-15T10:05:00+00:00"

\* C37: handle_event with a missing or empty uuid performs no storage
\* update and returns normally, the request being answered 200, and no
\* event, whatever its uuid, changes a CallLog stored with an empty
\* call_uuid.
C37_EventWithoutUuidUpdatesNothing ==
    [][last'.op = "event"
        => /\ Get(last'.data, "uuid", "") = ""
                => /\ call_logs' = call_logs
                   /\ effects' = <<>>
                   /\ response' = Ok([status |-> "ok"])
           /\ \A i \in DOMAIN call_logs :
                call_logs[i].call_uuid = ""
                    => /\ i \in DOMAIN call_logs'
                       /\ call_logs'[i] = call_logs[i]]_vars

\* an answer webhook without a uuid stored a CallLog with an empty
\* call_uuid, and a completed event without a uuid was answered 200 and
\* left that CallLog answered and open
C37_Witness ==
    /\ last.op = "event"
    /\ "uuid" \notin DOMAIN last.data
    /\ Get(last.data, "status", "") = "completed"
    /\ effects = <<>>
    /\ response = Ok([status |-> "ok"])
    /\ \E i \in DOMAIN call_logs :
        /\ call_logs[i].call_uuid = ""
        /\ call_logs[i].status = "answered"
        /\ call_logs[i].ended_at = None

\* C38: enrichment resolves the caller number from a CallLog whose call_uuid
\* equals the recording's conversation_uuid: a recording webhook for a
\* conversation under whose identifier no CallLog is stored starts no
\* enrichment task, even though enrichment is enabled and the call was
\* answered, under another uuid, with a caller number; and a task that is
\* started carries the caller number of a CallLog of that call_uuid.
C38_CallerResolvedByConversationUuid ==
    [][(last'.op = "recording" /\ music_generator)
        => LET c == Get(last'.data, "conversation_uuid", "")
               hits == {i \in DOMAIN call_logs : call_logs[i].call_uuid = c}
           IN  /\ hits = {}
                    => /\ threads' = threads
                       /\ \A k \in DOMAIN effects' :
                            effects'[k].call # "thread_start"
               /\ threads' # threads
                    => /\ threads' = Append(threads,
                                            threads'[Len(threads')])
                       /\ \E i \in hits :
                            threads'[Len(threads')].caller_number
                                = call_logs[i].caller_number]_vars

\* the call was answered with the leg uuid "u1" and a caller number, the
\* recording webhook of its conversation "c1" stored the Recording and
\* looked the CallLog up under "c1", and with enrichment enabled no task was
\* started
C38_Witness ==
    /\ last.op = "recording"
    /\ last.fault = "none"
    /\ music_generator
    /\ Get(last.data, "conversation_uuid", "") = "c1"
    /\ Len(call_logs) = 1
    /\ call_logs[1].call_uuid = "u1"
    /\ call_logs[1].caller_number = "+819011112222"
    /\ Len(recordings) = 1
    /\ effects # <<>>
    /\ effects[Len(effects)] = Call("get_call_log", "c1")
    /\ threads = <<>>
    /\ response = Ok([status |-> "ok"])

\* C39: the webhook handlers touch only their own entity: a step of
\* handle_recording leaves the CallLogs as they were, none created and
\* none changed, and a step of handle_answer or of handle_event leaves the
\* Recordings and the audio files as they were.
C39_HandlersTouchOwnEntityOnly ==
    [][/\ last'.op = "recording" => call_logs' = call_logs
       /\ last'.op \in {"answer", "event"}
            => recordings' = recordings /\ files' = files]_vars

\* the call "c1" was answered, its recording was stored and an enrichment
\* task started from the CallLog that was read, and the CallLog is still as
\* the answer webhook stored it
C39_Witness ==
    /\ last.op = "recording"
    /\ last.fault = "none"
    /\ Len(recordings) = 1
    /\ recordings[1].call_uuid = "c1"
    /\ Len(threads) = 1
    /\ Len(call_logs) = 1
    /\ call_logs[1].call_uuid = "c1"
    /\ call_logs[1].status = "answered"
    /\ call_logs[1].ended_at = None

====
